---- MODULE Spec2Model ----
(***************************************************************************)
(* Model of the backtesting engine of AlphaAgents                          *)
(* (src/AlphaAgents/backtesting.py, class PortfolioBacktester).            *)
(*                                                                         *)
(* Floating-point numbers are modelled as exact rationals <<n, d>> with    *)
(* d > 0 in lowest terms; the pandas/numpy NaN is the pair <<0, 0>>.       *)
(* A pandas Series is a record [index, val]; a DataFrame is a record       *)
(* [index, columns, cell].  A Python dict is a record [keys, val] that     *)
(* keeps the insertion order of its keys; the empty dict {} that a         *)
(* backtest returns on failure is the empty function <<>>.                 *)
(***************************************************************************)
EXTENDS Integers, Sequences, FiniteSets, TLC

(***************************************************************************)
(* Bounds of the model.                                                    *)
(***************************************************************************)
\* Trading dates of the general provider histories are 1..MaxDate.
MaxDate == 3
\* A return series handed to calculate_performance_metrics has 0..MaxReturns values.
MaxReturns == 3
\* A portfolio handed to extract_weights_from_portfolio has 0..MaxHoldings holdings.
MaxHoldings == 2

(***************************************************************************)
(* Program constants.                                                      *)
(***************************************************************************)
\* PortfolioBacktester.__init__(initial_capital=100000.0)
InitialCapital == 100000
\* trading days per year used for annualisation
TradingDaysPerYear == 252

(***************************************************************************)
(* Exact rational arithmetic standing for float arithmetic.                *)
(***************************************************************************)
Abs(x) == IF x < 0 THEN -x ELSE x

RECURSIVE GCD(_, _)
GCD(a, b) == IF b = 0 THEN a ELSE GCD(b, a % b)

NaN == <<0, 0>>
IsNaN(x) == x[2] = 0

Norm(n, d) ==
    LET g == GCD(Abs(n), Abs(d))
        s == IF d < 0 THEN -1 ELSE 1
    IN  <<(s * n) \div g, (s * d) \div g>>

R(n) == <<n, 1>>
Frac(n, d) == Norm(n, d)
Zero == <<0, 1>>
One == <<1, 1>>

RAdd(a, b) ==
    IF IsNaN(a) \/ IsNaN(b) THEN NaN
    ELSE LET g == GCD(a[2], b[2])
             l == (a[2] \div g) * b[2]
         IN  Norm(a[1] * (l \div a[2]) + b[1] * (l \div b[2]), l)

RNeg(a) == IF IsNaN(a) THEN NaN ELSE <<-a[1], a[2]>>
RSub(a, b) == RAdd(a, RNeg(b))

RMul(a, b) ==
    IF IsNaN(a) \/ IsNaN(b) THEN NaN
    ELSE LET g1 == GCD(Abs(a[1]), b[2])
             g2 == GCD(Abs(b[1]), a[2])
         IN  <<(a[1] \div g1) * (b[1] \div g2), (a[2] \div g2) * (b[2] \div g1)>>

\* Float division of non-zero by zero gives inf and 0/0 gives NaN in numpy;
\* closes are positive, so the only divisor that is ever zero is a weight sum,
\* which Python's float division reports by raising (see NormalizeWeights).
RDiv(a, b) ==
    IF IsNaN(a) \/ IsNaN(b) \/ b[1] = 0 THEN NaN
    ELSE RMul(a, Norm(b[2], b[1]))

\* Comparisons with NaN are false, as in IEEE arithmetic.
RLt(a, b) == ~IsNaN(a) /\ ~IsNaN(b) /\ RSub(a, b)[1] < 0
RGt(a, b) == RLt(b, a)
RLe(a, b) == ~IsNaN(a) /\ ~IsNaN(b) /\ RSub(a, b)[1] <= 0
RAbs(a) == IF IsNaN(a) THEN NaN ELSE <<Abs(a[1]), a[2]>>

(***************************************************************************)
(* Sequences and sets.                                                     *)
(***************************************************************************)
Range(s) == {s[k] : k \in DOMAIN s}

MinOf(S) == CHOOSE m \in S : \A x \in S : m <= x

RECURSIVE SortedSeq(_)
SortedSeq(S) ==
    IF S = {} THEN <<>>
    ELSE LET m == MinOf(S) IN <<m>> \o SortedSeq(S \ {m})

\* The keys of a list without repetition, first occurrences kept in order.
RECURSIVE Dedup(_)
Dedup(s) ==
    IF s = <<>> THEN <<>>
    ELSE LET front == Dedup(SubSeq(s, 1, Len(s) - 1))
             last == s[Len(s)]
         IN  IF last \in Range(front) THEN front ELSE Append(front, last)

RemoveKey(s, k) == SelectSeq(s, LAMBDA x : x # k)

(***************************************************************************)
(* pandas Series: [index |-> sorted sequence of dates, val |-> date -> x]. *)
(***************************************************************************)
EmptySeries == [index |-> <<>>, val |-> <<>>]

SeriesLen(s) == Len(s.index)

\* Series.dropna()
SeriesDropNa(s) ==
    LET idx == SelectSeq(s.index, LAMBDA d : ~IsNaN(s.val[d]))
    IN  [index |-> idx, val |-> [d \in Range(idx) |-> s.val[d]]]

\* Series.pct_change(): NaN in the first row, x[t]/x[t-1] - 1 afterwards.
SeriesPctChange(s) ==
    [index |-> s.index,
     val |-> [d \in Range(s.index) |->
                LET k == CHOOSE j \in DOMAIN s.index : s.index[j] = d
                IN  IF k = 1 THEN NaN
                    ELSE RSub(RDiv(s.val[d], s.val[s.index[k - 1]]), One)]]

\* 1 + series
OnePlus(s) == [index |-> s.index, val |-> [d \in Range(s.index) |-> RAdd(One, s.val[d])]]

\* scalar * series
Scale(c, s) == [index |-> s.index, val |-> [d \in Range(s.index) |-> RMul(c, s.val[d])]]

\* The values of a series as a sequence, in index order.
Values(s) == [k \in DOMAIN s.index |-> s.val[s.index[k]]]

RECURSIVE SumSeq(_)
SumSeq(xs) == IF xs = <<>> THEN Zero ELSE RAdd(SumSeq(SubSeq(xs, 1, Len(xs) - 1)), xs[Len(xs)])

RECURSIVE ProdSeq(_)
ProdSeq(xs) == IF xs = <<>> THEN One ELSE RMul(ProdSeq(SubSeq(xs, 1, Len(xs) - 1)), xs[Len(xs)])

\* Series.cumprod(): the k-th entry is the product of the first k entries.
RECURSIVE CumProdSeq(_)
CumProdSeq(xs) ==
    IF xs = <<>> THEN <<>>
    ELSE LET front == CumProdSeq(SubSeq(xs, 1, Len(xs) - 1))
         IN  Append(front, IF front = <<>> THEN xs[1] ELSE RMul(front[Len(front)], xs[Len(xs)]))

CumProd(s) ==
    LET c == CumProdSeq(Values(s))
    IN  [index |-> s.index,
         val |-> [d \in Range(s.index) |-> c[CHOOSE j \in DOMAIN s.index : s.index[j] = d]]]

(***************************************************************************)
(* pandas DataFrame: [index |-> sorted dates, columns |-> tickers in       *)
(* column order, cell |-> ticker -> date -> x].                            *)
(***************************************************************************)
\* Mutant of Column: the first column whatever the ticker asked for.
Column_First(df, t) == [index |-> df.index, val |-> df.cell[df.columns[1]]]

\* df[t]
Column(df, t) == [index |-> df.index, val |-> df.cell[t]]

\* pd.DataFrame({ticker: series, ...}): the row index is the sorted union of the
\* series' indexes, a cell is NaN where the ticker's series has no such date.
\* keys is the dict's key order, series[t] the value stored under t.
FrameFromDict(keys, series) ==
    LET idx == SortedSeq(UNION {Range(series[t].index) : t \in Range(keys)})
    IN  [index |-> idx,
         columns |-> keys,
         cell |-> [t \in Range(keys) |->
                     [d \in Range(idx) |->
                        IF d \in Range(series[t].index) THEN series[t].val[d] ELSE NaN]]]

\* Forward fill of a sequence of values: a NaN takes the value before it, a
\* leading NaN stays.
RECURSIVE FFillSeq(_)
FFillSeq(xs) ==
    IF xs = <<>> THEN <<>>
    ELSE LET front == FFillSeq(SubSeq(xs, 1, Len(xs) - 1))
             x == xs[Len(xs)]
         IN  Append(front, IF IsNaN(x) /\ front # <<>> THEN front[Len(front)] ELSE x)

\* Mutant of FFill: the forward fill is left out.
FFill_None(df) == df

\* DataFrame.fillna(method='ffill'): every column forward-filled along the dates.
FFill(df) ==
    [index |-> df.index,
     columns |-> df.columns,
     cell |-> [t \in Range(df.columns) |->
                 LET filled == FFillSeq(Values(Column(df, t)))
                 IN  [d \in Range(df.index) |->
                        filled[CHOOSE j \in DOMAIN df.index : df.index[j] = d]]]]

\* Mutant of DropNa: the rows with a missing value are kept.
DropNa_None(df) == df

\* DataFrame.dropna(): the rows holding a NaN in any column are dropped.
DropNa(df) ==
    LET idx == SelectSeq(df.index,
                         LAMBDA d : \A t \in Range(df.columns) : ~IsNaN(df.cell[t][d]))
    IN  [index |-> idx,
         columns |-> df.columns,
         cell |-> [t \in Range(df.columns) |-> [d \in Range(idx) |-> df.cell[t][d]]]]

\* Mutant of FrameEmpty: the test is "prices is None", which never holds.
FrameEmpty_IsNone(df) == FALSE

\* DataFrame.empty: no rows or no columns.
FrameEmpty(df) == Len(df.index) = 0 \/ Len(df.columns) = 0

\* DataFrame.pct_change()
FramePctChange(df) ==
    [index |-> df.index,
     columns |-> df.columns,
     cell |-> [t \in Range(df.columns) |-> SeriesPctChange(Column(df, t)).val]]

\* Mutant of RowMean: the sum over the columns of each row, not divided.
RowMean_Sum(df) ==
    [index |-> df.index,
     val |-> [d \in Range(df.index) |->
                SumSeq([k \in DOMAIN df.columns |-> df.cell[df.columns[k]][d]])]]

\* DataFrame.mean(axis=1): the mean over the columns of each row.
RowMean(df) ==
    [index |-> df.index,
     val |-> [d \in Range(df.index) |->
                RDiv(SumSeq([k \in DOMAIN df.columns |-> df.cell[df.columns[k]][d]]),
                     R(Len(df.columns)))]]

\* Mutant of WeightGet: every ticker gets the weight 1.
WeightGet_One(w, t) == One

\* dict.get(key, 0) on a weight mapping
WeightGet(w, t) == IF t \in Range(w.keys) THEN w.val[t] ELSE Zero

\* sum(returns[ticker] * weights.get(ticker, 0) for ticker in returns.columns)
WeightedSum(df, w) ==
    [index |-> df.index,
     val |-> [d \in Range(df.index) |->
                SumSeq([k \in DOMAIN df.columns |->
                          RMul(df.cell[df.columns[k]][d], WeightGet(w, df.columns[k]))])]]

(***************************************************************************)
(* IEEE-754 binary64, as far as Series.std() of a series of equal values   *)
(* needs it.  A positive double is [m, e]: m its significand of FloatBits  *)
(* bits, e the exponent of the first of them, so that its value is         *)
(* m * 2^(e - FloatBits + 1).  A significand, or any natural number below  *)
(* 2^57, is held as [hi, lo] with the value hi * 2^LoBits + lo, because    *)
(* a number of that size is not an integer of the model checker.  Every    *)
(* operation rounds to nearest, ties to even.                              *)
(***************************************************************************)
\* bits of the significand of a float64
FloatBits == 53
\* bits of the low part of [hi, lo]
LoBits == 27
HiBits == FloatBits - LoBits

RECURSIVE Pow2(_)
Pow2(k) == IF k = 0 THEN 1 ELSE 2 * Pow2(k - 1)

Limb == Pow2(LoBits)

Big(hi, lo) == [hi |-> hi, lo |-> lo]

BigAdd(a, b) ==
    LET l == a.lo + b.lo
    IN  Big(a.hi + b.hi + l \div Limb, l % Limb)

\* a * 2^k, for k <= 4
BigShl(a, k) ==
    LET l == a.lo * Pow2(k)
    IN  Big(a.hi * Pow2(k) + l \div Limb, l % Limb)

\* a \div 2^k
BigShr(a, k) ==
    Big(a.hi \div Pow2(k), a.lo \div Pow2(k) + (a.hi % Pow2(k)) * Pow2(LoBits - k))

\* The number of bits that [hi, lo] has beyond FloatBits.
RECURSIVE ExtraBits(_)
ExtraBits(hi) == IF hi < Pow2(HiBits) THEN 0 ELSE 1 + ExtraBits(hi \div 2)

\* The double nearest to a * 2^s, where a has more than FloatBits bits and is
\* followed by something non-zero exactly when sticky.
RoundToFloat(a, s, sticky) ==
    LET t == ExtraBits(a.hi)
        dropped == a.lo % Pow2(t)
        half == Pow2(t - 1)
        kept == BigShr(a, t)
        up == dropped > half \/ (dropped = half /\ (sticky \/ kept.lo % 2 = 1))
        r == IF up THEN BigAdd(kept, Big(0, 1)) ELSE kept
        e == s + t + FloatBits - 1
    IN  IF r.hi = Pow2(HiBits)
        THEN [m |-> Big(Pow2(HiBits - 1), 0), e |-> e + 1]
        ELSE [m |-> r, e |-> e]

\* The e with 2^e <= n/d < 2^(e+1), for n, d > 0.
RECURSIVE Exponent(_, _)
Exponent(n, d) ==
    IF n >= 2 * d THEN Exponent(n, 2 * d) + 1
    ELSE IF n < d THEN Exponent(2 * n, d) - 1
    ELSE 0

\* acc followed by the next k bits of the binary expansion of r/d (0 <= r < d),
\* and what is left of r.
RECURSIVE Expand(_, _, _, _)
Expand(acc, r, d, k) ==
    IF k = 0 THEN [q |-> acc, rem |-> r]
    ELSE LET b == IF 2 * r >= d THEN 1 ELSE 0
         IN  Expand(2 * acc + b, 2 * r - b * d, d, k - 1)

\* The double nearest to the rational n/d > 0: the value of a decimal literal.
ToFloat(n, d) ==
    LET e == Exponent(n, d)
        sn == IF e < 0 THEN n * Pow2(-e) ELSE n
        sd == IF e > 0 THEN d * Pow2(e) ELSE d
        top == Expand(1, sn - sd, sd, HiBits - 1)
        low == Expand(0, top.rem, sd, LoBits + 1)
    IN  RoundToFloat(Big(2 * top.q + low.q \div Limb, low.q % Limb),
                     e - FloatBits, low.rem # 0)

\* x + y for doubles x >= y > 0 whose exponents differ by at most 3
FAdd(x, y) ==
    RoundToFloat(BigAdd(BigShl(x.m, x.e - y.e), y.m), y.e - FloatBits + 1, FALSE)

\* bits by which a significand is extended before it is divided
GuardBits == 4

\* x / n for a double x > 0 and an integer 1 <= n <= 8
FDivInt(x, n) ==
    LET a == BigShl(x.m, GuardBits)
        cur == (a.hi % n) * Limb + a.lo
    IN  RoundToFloat(Big(a.hi \div n, cur \div n),
                     x.e - FloatBits + 1 - GuardBits, cur % n # 0)

\* values.sum() of count values equal to x, every addition rounded
RECURSIVE FSumOfEqual(_, _)
FSumOfEqual(x, count) == IF count = 1 THEN x ELSE FAdd(FSumOfEqual(x, count - 1), x)

\* nanvar's avg = values.sum() / count for count values equal to the double x
FMeanOfEqual(x, count) == FDivInt(FSumOfEqual(x, count), count)

(***************************************************************************)
(* Statistics.  A square root and a fractional power are kept as terms:    *)
(* SqrtOf(x) stands for the square root of x, PowOf(b, e) for b ** e,      *)
(* RatioOf(n, d) for n / d with such a term in it.                         *)
(***************************************************************************)
SqrtOf(x) == [radicand |-> x]
PowOf(b, e) == [base |-> b, exponent |-> e]
RatioOf(n, d) == [zero |-> FALSE, num |-> n, den |-> d]
ZeroRatio == [zero |-> TRUE, num |-> Zero, den |-> One]

MeanSeq(xs) == IF xs = <<>> THEN NaN ELSE RDiv(SumSeq(xs), R(Len(xs)))

\* Series.std() squared: the sample variance (ddof = 1), NaN below two values.
VarSeq(xs) ==
    IF Len(xs) < 2 THEN NaN
    ELSE LET m == MeanSeq(xs)
         IN  RDiv(SumSeq([k \in DOMAIN xs |-> RMul(RSub(xs[k], m), RSub(xs[k], m))]),
                  R(Len(xs) - 1))

\* sample covariance (ddof = 1)
CovSeq(xs, ys) ==
    IF Len(xs) < 2 THEN NaN
    ELSE LET mx == MeanSeq(xs)
             my == MeanSeq(ys)
         IN  RDiv(SumSeq([k \in DOMAIN xs |-> RMul(RSub(xs[k], mx), RSub(ys[k], my))]),
                  R(Len(xs) - 1))

\* nanvar subtracts avg = values.sum() / count from every value.  For a series of
\* equal values x the variance is zero exactly when the rounded avg is x again;
\* otherwise Series.std() is a positive rounding residue (1.7e-17 for three values
\* 0.1).  A value of the model enters as the double nearest to it; the series of
\* the model have at most 8 values, which numpy adds one after the other.
StdResidue(xs) ==
    /\ Len(xs) >= 2
    /\ \A k \in DOMAIN xs : xs[k] = xs[1]
    /\ ~IsNaN(xs[1])
    /\ xs[1] # Zero
    /\ LET a == RAbs(xs[1])
           x == ToFloat(a[1], a[2])
       IN  FMeanOfEqual(x, Len(xs)) # x

\* Series.corr(): Pearson's r = cov / sqrt(varx * vary), kept as its three parts.
CorrOf(xs, ys) == [cov |-> CovSeq(xs, ys), varx |-> VarSeq(xs), vary |-> VarSeq(ys)]

RECURSIVE MaxSeq(_)
MaxSeq(xs) ==
    IF xs = <<>> THEN NaN
    ELSE IF Len(xs) = 1 THEN xs[1]
    ELSE LET m == MaxSeq(SubSeq(xs, 1, Len(xs) - 1))
         IN  IF RGt(xs[Len(xs)], m) THEN xs[Len(xs)] ELSE m

RECURSIVE MinSeq(_)
MinSeq(xs) ==
    IF xs = <<>> THEN NaN
    ELSE IF Len(xs) = 1 THEN xs[1]
    ELSE LET m == MinSeq(SubSeq(xs, 1, Len(xs) - 1))
         IN  IF RLt(xs[Len(xs)], m) THEN xs[Len(xs)] ELSE m

\* Mutant of ExpandingMax: the maximum of the whole series at every entry.
ExpandingMax_Whole(xs) == [k \in DOMAIN xs |-> MaxSeq(xs)]

\* Series.expanding().max(): the k-th entry is the maximum of the first k entries.
ExpandingMax(xs) == [k \in DOMAIN xs |-> MaxSeq(SubSeq(xs, 1, k))]

\* returns.align(benchmark_returns, join='inner'): the dates both series have.
AlignInner(s, b) == SelectSeq(s.index, LAMBDA d : d \in Range(b.index))

(***************************************************************************)
(* PortfolioBacktester.calculate_returns                                   *)
(***************************************************************************)
\* data['Close'].pct_change().dropna(); data is given by its Close column.
calculate_returns(close) == SeriesDropNa(SeriesPctChange(close))

(***************************************************************************)
(* PortfolioBacktester.calculate_performance_metrics                       *)
(*                                                                         *)
(* The value is [raised, metrics]: raised is TRUE when the Python code     *)
(* raises (ZeroDivisionError in 252 / len(returns)), and metrics is the    *)
(* returned dict.  The fields that the code multiplies by 100 hold the     *)
(* percentage when it is rational (total_return, max_drawdown, win_rate,   *)
(* best_day, worst_day, alpha); annualized_return holds the term           *)
(* PowOf(1 + total_return, 252 / n) of which the code takes "- 1" and      *)
(* "* 100", volatility and tracking_error hold the term SqrtOf(var * 252)  *)
(* with the residue flag of StdResidue,                                    *)
(* of which the code takes "* 100".                                        *)
(***************************************************************************)
\* "term > 0" for a volatility term [radicand, residue]: residue says that the
\* float value is a positive rounding residue where the exact radicand is zero.
Positive(term) == term.residue \/ RGt(term.radicand, Zero)

\* xs.std() * np.sqrt(252)
Annualize(xs) ==
    SqrtOf(RMul(VarSeq(xs), R(TradingDaysPerYear))) @@ [residue |-> StdResidue(xs)]

\* the number 0 as a volatility term
ZeroTerm == SqrtOf(Zero) @@ [residue |-> FALSE]

Pct(x) == RMul(x, R(100))

\* lines 101-104
MaxDrawdown(xs) ==
    LET cumulative == CumProdSeq([k \in DOMAIN xs |-> RAdd(One, xs[k])])
        running_max == ExpandingMax(cumulative)
        drawdown == [k \in DOMAIN xs |->
                       RDiv(RSub(cumulative[k], running_max[k]), running_max[k])]
    IN  MinSeq(drawdown)

\* lines 107: len(returns[returns > 0]) / len(returns) if len(returns) > 0 else 0
WinRate(xs) ==
    IF Len(xs) > 0
    THEN Frac(Len(SelectSeq(xs, LAMBDA x : RGt(x, Zero))), Len(xs))
    ELSE Zero

\* Mutant of BenchmarkMetrics: the benchmark comparison is never added.
BenchmarkMetrics_None(returns, total_return, has_benchmark, benchmark_returns) == <<>>

\* lines 122-137: the benchmark comparison, {} when it is skipped
BenchmarkMetrics(returns, total_return, has_benchmark, benchmark_returns) ==
    IF ~(has_benchmark /\ SeriesLen(benchmark_returns) > 0) THEN <<>>
    ELSE LET idx == AlignInner(returns, benchmark_returns)
             aligned_returns == [k \in DOMAIN idx |-> returns.val[idx[k]]]
             aligned_benchmark == [k \in DOMAIN idx |-> benchmark_returns.val[idx[k]]]
             excess_returns == [k \in DOMAIN idx |->
                                  RSub(aligned_returns[k], aligned_benchmark[k])]
             tracking_error == Annualize(excess_returns)
             information_ratio ==
                 IF Positive(tracking_error)
                 THEN RatioOf(RMul(MeanSeq(excess_returns), R(TradingDaysPerYear)),
                              tracking_error)
                 ELSE ZeroRatio
             benchmark_total ==
                 RSub(ProdSeq(Values(OnePlus(benchmark_returns))), One)
         IN  IF Len(idx) > 0
             THEN [correlation_to_benchmark |-> CorrOf(aligned_returns, aligned_benchmark),
                   tracking_error |-> tracking_error,
                   information_ratio |-> information_ratio,
                   alpha |-> Pct(RSub(total_return, benchmark_total))]
             ELSE <<>>

calculate_performance_metrics(returns, has_benchmark, benchmark_returns) ==
    LET xs == Values(returns)
        n == Len(xs)
        total_return == RSub(ProdSeq(Values(OnePlus(returns))), One)
    IN  IF n = 0
        THEN [raised |-> TRUE, metrics |-> <<>>]
        ELSE LET annualized_return ==
                     PowOf(RAdd(One, total_return), Frac(TradingDaysPerYear, n))
                 volatility == Annualize(xs)
                 downside_returns == SelectSeq(xs, LAMBDA x : RLt(x, Zero))
                 downside_volatility ==
                     IF Len(downside_returns) > 0
                     THEN Annualize(downside_returns)
                     ELSE ZeroTerm
                 sharpe_ratio ==
                     IF Positive(volatility)
                     THEN RatioOf(annualized_return, volatility)
                     ELSE ZeroRatio
                 sortino_ratio ==
                     IF Positive(downside_volatility)
                     THEN RatioOf(annualized_return, downside_volatility)
                     ELSE ZeroRatio
             IN  [raised |-> FALSE,
                  metrics |->
                     [total_return |-> Pct(total_return),
                      annualized_return |-> annualized_return,
                      volatility |-> volatility,
                      sharpe_ratio |-> sharpe_ratio,
                      sortino_ratio |-> sortino_ratio,
                      max_drawdown |-> Pct(MaxDrawdown(xs)),
                      win_rate |-> Pct(WinRate(xs)),
                      best_day |-> Pct(MaxSeq(xs)),
                      worst_day |-> Pct(MinSeq(xs))]
                     @@ BenchmarkMetrics(returns, total_return,
                                         has_benchmark, benchmark_returns)]

\* DataFrame.corr(): the pairwise correlation of the columns.
CorrelationMatrix(df) ==
    [columns |-> df.columns,
     cell |-> [a \in Range(df.columns) |->
                 [b \in Range(df.columns) |->
                    CorrOf(Values(Column(df, a)), Values(Column(df, b)))]]]

(***************************************************************************)
(* The market-data provider (yfinance) and the inputs of the calls.        *)
(***************************************************************************)
PortfolioTickers == {"A", "B"}
\* default benchmark of both backtest methods
DefaultBenchmark == "SPY"
Tickers == PortfolioTickers \cup {DefaultBenchmark}

start_date == "2024-01-01"
end_date == "2024-12-31"

\* The closing price of each ticker on the trading dates 1, 2, ...
CloseTable ==
    [A |-> <<2, 4, 2, 4, 8, 4>>,
     B |-> <<4, 4, 2, 1, 1, 2>>,
     SPY |-> <<1, 2, 2, 1, 2, 4>>]

\* The Close column of a history that holds the given closes on the dates S.
History(closes, S) == [index |-> SortedSeq(S), val |-> [d \in S |-> R(closes[d])]]

\* What Ticker(t).history(start, end) does: it raises, or returns a table (which
\* may be empty).
Raises == [raises |-> TRUE, close |-> EmptySeries]
Table(close) == [raises |-> FALSE, close |-> close]

Outcomes(t) ==
    {Raises} \cup {Table(History(CloseTable[t], S)) : S \in SUBSET (1 .. MaxDate)}

BenchmarkOutcomes ==
    {Raises} \cup {Table(History(CloseTable[DefaultBenchmark], S)) :
                      S \in {{}, {1, 2}, 1 .. MaxDate}}

\* Ticker A traded on the dates 1, 2, 3, 5 and ticker B on 1, 2, 4, 5.
AlignmentScenario ==
    [A |-> Table(History(CloseTable["A"], {1, 2, 3, 5})),
     B |-> Table(History(CloseTable["B"], {1, 2, 4, 5})),
     SPY |-> Table(History(CloseTable["SPY"], 1 .. 5))]

ProviderOf(a, b, s) == [t \in Tickers |-> IF t = "A" THEN a ELSE IF t = "B" THEN b ELSE s]

FullHistory(t) == Table(History(CloseTable[t], 1 .. MaxDate))

\* Every answer for the two portfolio tickers with the benchmark fully available,
\* every answer for the benchmark and for A with B fully available, and the
\* alignment scenario.
Providers ==
    {ProviderOf(a, b, FullHistory(DefaultBenchmark)) :
        a \in Outcomes("A"), b \in Outcomes("B")}
    \cup {ProviderOf(a, FullHistory("B"), s) : a \in Outcomes("A"), s \in BenchmarkOutcomes}
    \cup {AlignmentScenario}

\* The (tickers, benchmark) arguments of the equal-weight calls.
Args(ts, b) == [tickers |-> ts, benchmark |-> b]

EqualArgs ==
    {Args(<<"A">>, DefaultBenchmark),
     Args(<<"B">>, DefaultBenchmark),
     Args(<<"A", "B">>, DefaultBenchmark),
     Args(<<"A", "B">>, "A")}

\* A weight mapping with the given keys (in insertion order) and values.
Weights(keys, val) == [keys |-> keys, val |-> val]

\* The (portfolio_weights, benchmark) arguments of the weighted calls.
WArgs(w, b) == [weights |-> w, benchmark |-> b]

WeightedArgs ==
    {WArgs(Weights(<<>>, <<>>), DefaultBenchmark),
     WArgs(Weights(<<"A">>, [A |-> Frac(1008, 1000)]), DefaultBenchmark),
     WArgs(Weights(<<"A", "B">>, [A |-> Frac(500, 1000), B |-> Frac(500, 1000)]),
           DefaultBenchmark),
     WArgs(Weights(<<"A", "B">>, [A |-> Frac(500, 1000), B |-> Frac(500, 1000)]), "A"),
     WArgs(Weights(<<"A", "B">>, [A |-> Frac(388, 1000), B |-> Frac(582, 1000)]),
           DefaultBenchmark),
     WArgs(Weights(<<"A", "B">>, [A |-> Frac(412, 1000), B |-> Frac(618, 1000)]),
           DefaultBenchmark),
     WArgs(Weights(<<"A", "B">>, [A |-> Zero, B |-> One]), DefaultBenchmark),
     WArgs(Weights(<<"A", "B">>, [A |-> Zero, B |-> Zero]), DefaultBenchmark)}

(***************************************************************************)
(* State.                                                                  *)
(***************************************************************************)
VARIABLES
    provider,           \* what the provider answers for each ticker
    results,            \* self.results
    pc,                 \* "idle", "fetch", "returned" or "raised"
    method,             \* "equal" or "weighted": the method that was called
    tickers,            \* the portfolio tickers of the call
    benchmark,          \* the benchmark argument
    weights_arg,        \* the caller's weight mapping object
    portfolio_weights,  \* the local variable portfolio_weights
    all_tickers,        \* tickers + [benchmark]
    fetch_i,            \* position of fetch_historical_data's loop in all_tickers
    fetch_log,          \* the tickers the provider was asked for, in order
    historical_data,    \* the dict that fetch_historical_data fills
    warned,             \* the partial-coverage warning was printed
    prices,             \* the local variable prices (after fillna and dropna)
    returns,            \* the local variable returns
    ret,                \* the value returned to the caller
    metrics_args,       \* the arguments of a direct calculate_performance_metrics call
    metrics_ret,        \* [called, raised, metrics]: what that call returned
    saved_file,         \* [written, data]: the file that save_results writes
    printed,            \* what the last print_results() call printed
    calls,              \* the local variables of each of two interleaved backtest calls
    wf,                 \* AlphaAgentsWorkflow.run: [pc, state, visits, reads, ret]
    portfolio_data,     \* the argument of extract_weights_from_portfolio
    extracted           \* [called, value]: what extract_weights_from_portfolio returned

vars ==
    <<provider, results, pc, method, tickers, benchmark, weights_arg, portfolio_weights,
      all_tickers, fetch_i, fetch_log, historical_data, warned, prices, returns, ret,
      metrics_args, metrics_ret, saved_file, printed, calls, wf, portfolio_data,
      extracted>>

\* The variables of the other operations of the repository.
laterVars == <<printed, calls, wf, portfolio_data, extracted>>

\* The variables that the backtest methods do not touch.
otherVars == <<metrics_args, metrics_ret, saved_file, laterVars>>

EmptyDict == [keys |-> <<>>, val |-> <<>>]
EmptyFrame == [index |-> <<>>, columns |-> <<>>, cell |-> <<>>]
\* no direct call of calculate_performance_metrics was made
NotCalled == [called |-> FALSE, raised |-> FALSE, metrics |-> <<>>]
NoArgs == [returns |-> EmptySeries, has_benchmark |-> FALSE, benchmark_returns |-> EmptySeries]
\* save_results has not written its file
NoFile == [written |-> FALSE, data |-> <<>>]
\* the empty dict {} as a result
NoResult == <<>>
\* print_results() has not been called
NothingPrinted == [called |-> FALSE, text |-> ""]
\* the callers of two interleaved backtest calls
Invocations == {"c1", "c2"}
\* a caller that is not inside a backtest call
IdleCall ==
    [pc |-> "idle", method |-> "none", tickers |-> <<>>, benchmark |-> DefaultBenchmark,
     weights_arg |-> EmptyDict, portfolio_weights |-> EmptyDict, all_tickers |-> <<>>,
     fetch_i |-> 1, historical_data |-> EmptyDict, ret |-> NoResult]
NoCalls == [c \in Invocations |-> IdleCall]
\* AlphaAgentsWorkflow.run has not been called
NoWorkflow == [pc |-> "idle", state |-> <<>>, visits |-> <<>>, reads |-> <<>>, ret |-> <<>>]
\* extract_weights_from_portfolio has no argument yet and has not been called
NoPortfolio == [type |-> "NoneType"]
NotExtracted == [called |-> FALSE, value |-> <<>>]

Init ==
    /\ provider \in Providers
    /\ results = NoResult
    /\ pc = "idle"
    /\ method = "none"
    /\ tickers = <<>>
    /\ benchmark = DefaultBenchmark
    /\ weights_arg = EmptyDict
    /\ portfolio_weights = EmptyDict
    /\ all_tickers = <<>>
    /\ fetch_i = 1
    /\ fetch_log = <<>>
    /\ historical_data = EmptyDict
    /\ warned = FALSE
    /\ prices = EmptyFrame
    /\ returns = EmptyFrame
    /\ ret = NoResult
    /\ metrics_args = NoArgs
    /\ metrics_ret = NotCalled
    /\ saved_file = NoFile
    /\ printed = NothingPrinted
    /\ calls = NoCalls
    /\ wf = NoWorkflow
    /\ portfolio_data = NoPortfolio
    /\ extracted = NotExtracted

(***************************************************************************)
(* Python dict operations on [keys, val].                                  *)
(***************************************************************************)
DictHas(d, k) == k \in Range(d.keys)

\* d[k] = v
DictSet(d, k, v) ==
    [keys |-> IF DictHas(d, k) THEN d.keys ELSE Append(d.keys, k),
     val |-> [x \in Range(d.keys) \cup {k} |-> IF x = k THEN v ELSE d.val[x]]]

\* Mutant of DictPop: the key stays in the dict.
DictPop_Keep(d, k) == d

\* d.pop(k, None): the dict without the key k
DictPop(d, k) ==
    [keys |-> RemoveKey(d.keys, k),
     val |-> [x \in Range(d.keys) \ {k} |-> d.val[x]]]

(***************************************************************************)
(* backtest_weighted_portfolio, lines 262-266: validation of the weights.  *)
(* The value is [raised, weights]: v / total_weight raises                 *)
(* ZeroDivisionError when the weights of a non-empty mapping sum to zero.  *)
(***************************************************************************)
TotalWeight(w) == SumSeq([k \in DOMAIN w.keys |-> w.val[w.keys[k]]])

\* Mutant of OutOfTolerance: the weights are normalized whatever their sum.
OutOfTolerance_Always(total_weight) == TRUE

OutOfTolerance(total_weight) == RGt(RAbs(RSub(total_weight, One)), Frac(1, 100))

NormalizeWeights(w) ==
    LET total_weight == TotalWeight(w)
    IN  IF OutOfTolerance(total_weight)
        THEN IF total_weight = Zero /\ w.keys # <<>>
             THEN [raised |-> TRUE, weights |-> w]
             ELSE [raised |-> FALSE,
                   weights |-> [keys |-> w.keys,
                                val |-> [t \in Range(w.keys) |->
                                           RDiv(w.val[t], total_weight)]]]
        ELSE [raised |-> FALSE, weights |-> w]

(***************************************************************************)
(* Lines 180-187 and 276-282: the combined price frame of the tickers left *)
(* in historical_data, forward-filled, rows with a missing value dropped.  *)
(***************************************************************************)
AlignPrices(hd) == DropNa(FFill(FrameFromDict(hd.keys, hd.val)))

\* Mutant of FrameReturns: the first row, which has no prior price, is kept.
FrameReturns_KeepFirst(p) == FramePctChange(p)

\* lines 196 and 291: prices.pct_change().dropna()
FrameReturns(p) == DropNa(FramePctChange(p))

\* Mutant of PortfolioValue: the returns are added up instead of compounded.
PortfolioValue_Additive(portfolio_returns) ==
    LET xs == Values(portfolio_returns)
    IN  [index |-> portfolio_returns.index,
         val |-> [d \in Range(portfolio_returns.index) |->
                    LET k == CHOOSE j \in DOMAIN portfolio_returns.index :
                                 portfolio_returns.index[j] = d
                    IN  RMul(R(InitialCapital), RAdd(One, SumSeq(SubSeq(xs, 1, k))))]]

\* lines 202 and 300: initial_capital * (1 + portfolio_returns).cumprod()
PortfolioValue(portfolio_returns) ==
    Scale(R(InitialCapital), CumProd(OnePlus(portfolio_returns)))

\* Series.iloc[-1]
Last(s) == s.val[s.index[Len(s.index)]]

(***************************************************************************)
(* Lines 204-231 and 302-327: the metrics and the results dict.  The value *)
(* is [raised, results]; extra holds the fields only one method adds.      *)
(***************************************************************************)
BuildResults(p, r, portfolio_returns, has_benchmark, benchmark_data, extra) ==
    LET portfolio_value == PortfolioValue(portfolio_returns)
        metrics ==
            calculate_performance_metrics(
                portfolio_returns, has_benchmark,
                IF has_benchmark THEN calculate_returns(benchmark_data) ELSE EmptySeries)
        individual ==
            [t \in Range(p.columns) |->
                calculate_performance_metrics(Column(r, t), FALSE, EmptySeries)]
    IN  IF metrics.raised \/ \E t \in Range(p.columns) : individual[t].raised
        THEN [raised |-> TRUE, results |-> NoResult]
        ELSE [raised |-> FALSE,
              results |->
                 [portfolio_metrics |-> metrics.metrics,
                  individual_metrics |-> [t \in Range(p.columns) |-> individual[t].metrics],
                  portfolio_returns |-> portfolio_returns,
                  portfolio_value |-> portfolio_value,
                  final_value |-> Last(portfolio_value),
                  total_return_pct |->
                     Pct(RSub(RDiv(Last(portfolio_value), R(InitialCapital)), One)),
                  correlation_matrix |-> CorrelationMatrix(r),
                  tickers |-> p.columns,
                  start_date |-> start_date,
                  end_date |-> end_date,
                  trading_days |-> Len(p.index)] @@ extra]

(***************************************************************************)
(* Actions.                                                                *)
(***************************************************************************)
CanCall == pc \in {"idle", "returned", "raised"}

\* backtest_equal_weight_portfolio is called: lines 171-172 up to the fetch loop.
CallEqual(ts, b) ==
    /\ CanCall
    /\ method' = "equal"
    /\ tickers' = ts
    /\ benchmark' = b
    /\ weights_arg' = EmptyDict
    /\ portfolio_weights' = EmptyDict
    /\ all_tickers' = ts \o <<b>>
    /\ fetch_i' = 1
    /\ fetch_log' = <<>>
    /\ historical_data' = EmptyDict
    /\ warned' = FALSE
    /\ prices' = EmptyFrame
    /\ returns' = EmptyFrame
    /\ ret' = NoResult
    /\ pc' = "fetch"
    /\ UNCHANGED <<provider, results, otherVars>>

\* backtest_weighted_portfolio is called: lines 262-271 up to the fetch loop.
CallWeighted(w, b) ==
    LET nw == NormalizeWeights(w)
    IN  /\ CanCall
        /\ method' = "weighted"
        /\ benchmark' = b
        /\ weights_arg' = w
        /\ portfolio_weights' = nw.weights
        /\ tickers' = IF nw.raised THEN <<>> ELSE nw.weights.keys
        /\ all_tickers' = IF nw.raised THEN <<>> ELSE nw.weights.keys \o <<b>>
        /\ fetch_i' = 1
        /\ fetch_log' = <<>>
        /\ historical_data' = EmptyDict
        /\ warned' = FALSE
        /\ prices' = EmptyFrame
        /\ returns' = EmptyFrame
        /\ ret' = NoResult
        /\ pc' = IF nw.raised THEN "raised" ELSE "fetch"
        /\ UNCHANGED <<provider, results, otherVars>>

\* Mutant of FetchTicker: the try/except encloses the loop, so that a fetch that
\* raises ends the loop.
FetchTicker_AbortOnError ==
    /\ pc = "fetch"
    /\ fetch_i <= Len(all_tickers)
    /\ LET ticker == all_tickers[fetch_i]
           answer == provider[ticker]
       IN  /\ fetch_log' = Append(fetch_log, ticker)
           /\ historical_data' =
                 IF ~answer.raises /\ SeriesLen(answer.close) > 0
                 THEN DictSet(historical_data, ticker, answer.close)
                 ELSE historical_data
           /\ fetch_i' = IF answer.raises THEN Len(all_tickers) + 1 ELSE fetch_i + 1
    /\ UNCHANGED <<provider, results, pc, method, tickers, benchmark, weights_arg,
                   portfolio_weights, all_tickers, warned, prices, returns, ret,
                   otherVars>>

\* fetch_historical_data, one iteration of the loop of lines 51-64.
FetchTicker ==
    /\ pc = "fetch"
    /\ fetch_i <= Len(all_tickers)
    /\ LET ticker == all_tickers[fetch_i]
           answer == provider[ticker]
       IN  /\ fetch_log' = Append(fetch_log, ticker)
           /\ historical_data' =
                 IF ~answer.raises /\ SeriesLen(answer.close) > 0
                 THEN DictSet(historical_data, ticker, answer.close)
                 ELSE historical_data
    /\ fetch_i' = fetch_i + 1
    /\ UNCHANGED <<provider, results, pc, method, tickers, benchmark, weights_arg,
                   portfolio_weights, all_tickers, warned, prices, returns, ret,
                   otherVars>>

\* The rest of a backtest once fetch_historical_data has returned: hd is the
\* dict after the benchmark was popped, out the [raised, results] of BuildResults.
Finish(hd, p, r, out) ==
    /\ historical_data' = hd
    /\ prices' = p
    /\ IF FrameEmpty(p)
       THEN /\ returns' = EmptyFrame
            /\ ret' = NoResult
            /\ pc' = "returned"
            /\ UNCHANGED results
       ELSE /\ returns' = r
            /\ IF out.raised
               THEN /\ ret' = NoResult
                    /\ pc' = "raised"
                    /\ UNCHANGED results
               ELSE /\ ret' = out.results
                    /\ results' = out.results
                    /\ pc' = "returned"
    /\ UNCHANGED <<provider, method, tickers, benchmark, weights_arg, portfolio_weights,
                   all_tickers, fetch_i, fetch_log, otherVars>>

\* backtest_equal_weight_portfolio, lines 174-234.
FinishEqual ==
    /\ pc = "fetch"
    /\ fetch_i > Len(all_tickers)
    /\ method = "equal"
    /\ warned' = (Len(historical_data.keys) < Len(tickers))
    /\ LET has_benchmark == DictHas(historical_data, benchmark)
           benchmark_data ==
               IF has_benchmark THEN historical_data.val[benchmark] ELSE EmptySeries
           hd == DictPop(historical_data, benchmark)
           p == AlignPrices(hd)
           r == FrameReturns(p)
       IN  Finish(hd, p, r,
                  BuildResults(p, r, RowMean(r), has_benchmark, benchmark_data, <<>>))

\* backtest_weighted_portfolio, lines 273-330.
FinishWeighted ==
    /\ pc = "fetch"
    /\ fetch_i > Len(all_tickers)
    /\ method = "weighted"
    /\ UNCHANGED warned
    /\ LET has_benchmark == DictHas(historical_data, benchmark)
           benchmark_data ==
               IF has_benchmark THEN historical_data.val[benchmark] ELSE EmptySeries
           hd == DictPop(historical_data, benchmark)
           p == AlignPrices(hd)
           r == FrameReturns(p)
       IN  Finish(hd, p, r,
                  BuildResults(p, r, WeightedSum(r, portfolio_weights),
                               has_benchmark, benchmark_data,
                               [portfolio_weights |-> portfolio_weights]))

Next ==
    \/ \E a \in EqualArgs : CallEqual(a.tickers, a.benchmark)
    \/ \E a \in WeightedArgs : CallWeighted(a.weights, a.benchmark)
    \/ FetchTicker
    \/ FinishEqual
    \/ FinishWeighted

Spec == Init /\ [][Next]_vars

(***************************************************************************)
(* save_results.  json.dump writes a dict as a JSON object of the same     *)
(* keys; a float is written in the shortest decimal form that reads back   *)
(* as the same float, so that the written number is the number.            *)
(***************************************************************************)
\* DataFrame.to_dict(): {column: {row label: value}}
ToDict(df) ==
    [keys |-> df.columns,
     val |-> [c \in Range(df.columns) |-> [keys |-> df.columns, val |-> df.cell[c]]]]

\* Mutant of SaveData: the whole results dict is written.
SaveData_All(res) == res

\* lines 406-417: save_data
SaveData(res) ==
    [portfolio_metrics |-> res.portfolio_metrics,
     individual_metrics |-> res.individual_metrics,
     portfolio_weights |->
        IF "portfolio_weights" \in DOMAIN res THEN res.portfolio_weights ELSE EmptyDict,
     final_value |-> res.final_value,
     total_return_pct |-> res.total_return_pct,
     tickers |-> res.tickers,
     start_date |-> res.start_date,
     end_date |-> res.end_date,
     trading_days |-> res.trading_days,
     correlation_matrix |-> ToDict(res.correlation_matrix)]

\* save_results(filename), called between two backtests
SaveResults ==
    /\ CanCall
    /\ IF results = NoResult
       THEN UNCHANGED saved_file
       ELSE saved_file' = [written |-> TRUE, data |-> SaveData(results)]
    /\ UNCHANGED <<provider, results, pc, method, tickers, benchmark, weights_arg,
                   portfolio_weights, all_tickers, fetch_i, fetch_log, historical_data,
                   warned, prices, returns, ret, metrics_args, metrics_ret, laterVars>>

\* The provider answers under which the backtests are followed by save_results.
SaveProviders ==
    {ProviderOf(a, b, FullHistory(DefaultBenchmark)) :
        a \in {Raises, FullHistory("A")}, b \in {Raises, FullHistory("B")}}
    \cup {AlignmentScenario}

SaveInit == Init /\ provider \in SaveProviders

SaveNext == Next \/ SaveResults

SaveSpec == SaveInit /\ [][SaveNext]_vars

(***************************************************************************)
(* print_results() without an argument, and the backtester whose caller    *)
(* prints and saves between the backtests.                                 *)
(***************************************************************************)
\* lines 334-348: what print_results prints first, and the tickers it names
PrintResults ==
    /\ CanCall
    /\ printed' =
          IF results = NoResult
          THEN [called |-> TRUE, text |-> "No results to display"]
          ELSE [called |-> TRUE, text |-> "BACKTEST RESULTS SUMMARY",
                tickers |-> results.tickers]
    /\ UNCHANGED <<provider, results, pc, method, tickers, benchmark, weights_arg,
                   portfolio_weights, all_tickers, fetch_i, fetch_log, historical_data,
                   warned, prices, returns, ret, metrics_args, metrics_ret, saved_file,
                   calls, wf, portfolio_data, extracted>>

\* Ticker A has no data, B and the benchmark have their full histories.
ReportProviders == {ProviderOf(Raises, FullHistory("B"), FullHistory(DefaultBenchmark))}

ReportInit == Init /\ provider \in ReportProviders

ReportNext == Next \/ SaveResults \/ PrintResults

ReportSpec == ReportInit /\ [][ReportNext]_vars

(***************************************************************************)
(* calculate_performance_metrics called by itself.  It reads nothing of    *)
(* the backtester, so its behaviours are those of a backtester that has    *)
(* just been constructed: the arguments are drawn in the initial state and *)
(* the one action is the call.                                             *)
(***************************************************************************)
\* daily returns: -50 %, 0, 10 %, 100 %
ReturnValues == {Frac(-1, 2), Zero, Frac(1, 10), One}

\* The series with the values xs on the dates 1 .. Len(xs).
SeriesFrom(xs) == [index |-> [k \in DOMAIN xs |-> k], val |-> xs]

ReturnSeries ==
    UNION {{SeriesFrom(xs) : xs \in [1 .. n -> ReturnValues]} : n \in 0 .. MaxReturns}

\* benchmark returns: none, on the dates 1 and 2, and on a date no series has
BenchmarkSeries ==
    {EmptySeries,
     SeriesFrom(<<Zero, Frac(1, 2)>>),
     [index |-> <<MaxReturns + 2>>, val |-> [d \in {MaxReturns + 2} |-> Frac(1, 2)]]}

MetricsInputs ==
    {[returns |-> r, has_benchmark |-> FALSE, benchmark_returns |-> EmptySeries] :
        r \in ReturnSeries}
    \cup {[returns |-> r, has_benchmark |-> TRUE, benchmark_returns |-> b] :
            r \in ReturnSeries, b \in BenchmarkSeries}

MetricsInit ==
    /\ provider = AlignmentScenario
    /\ results = NoResult
    /\ pc = "idle"
    /\ method = "none"
    /\ tickers = <<>>
    /\ benchmark = DefaultBenchmark
    /\ weights_arg = EmptyDict
    /\ portfolio_weights = EmptyDict
    /\ all_tickers = <<>>
    /\ fetch_i = 1
    /\ fetch_log = <<>>
    /\ historical_data = EmptyDict
    /\ warned = FALSE
    /\ prices = EmptyFrame
    /\ returns = EmptyFrame
    /\ ret = NoResult
    /\ metrics_args \in MetricsInputs
    /\ metrics_ret = NotCalled
    /\ saved_file = NoFile
    /\ printed = NothingPrinted
    /\ calls = NoCalls
    /\ wf = NoWorkflow
    /\ portfolio_data = NoPortfolio
    /\ extracted = NotExtracted

\* calculate_performance_metrics(returns, benchmark_returns)
CallMetrics ==
    /\ metrics_ret = NotCalled
    /\ metrics_ret' =
          [called |-> TRUE]
          @@ calculate_performance_metrics(metrics_args.returns, metrics_args.has_benchmark,
                                           metrics_args.benchmark_returns)
    /\ UNCHANGED <<provider, results, pc, method, tickers, benchmark, weights_arg,
                   portfolio_weights, all_tickers, fetch_i, fetch_log, historical_data,
                   warned, prices, returns, ret, metrics_args, saved_file, laterVars>>

MetricsNext == CallMetrics

MetricsSpec == MetricsInit /\ [][MetricsNext]_vars

(***************************************************************************)
(* Two backtest calls on one PortfolioBacktester, made by two callers      *)
(* whose steps interleave.  Every name of a backtest method is a local     *)
(* variable of the call, kept in calls[c]; the calls share the provider    *)
(* and the attribute self.results.  One step is the start of a call, one   *)
(* request to the provider, or the rest of the method from the pop of the  *)
(* benchmark to the return, which touches nothing shared but self.results. *)
(***************************************************************************)
\* The local variables when the fetch loop starts (lines 171-172, 262-271).
StartEqual(ts, b) ==
    [pc |-> "fetch", method |-> "equal", tickers |-> ts, benchmark |-> b,
     weights_arg |-> EmptyDict, portfolio_weights |-> EmptyDict,
     all_tickers |-> ts \o <<b>>, fetch_i |-> 1, historical_data |-> EmptyDict,
     ret |-> NoResult]

StartWeighted(w, b) ==
    LET nw == NormalizeWeights(w)
    IN  [pc |-> IF nw.raised THEN "raised" ELSE "fetch",
         method |-> "weighted",
         tickers |-> IF nw.raised THEN <<>> ELSE nw.weights.keys,
         benchmark |-> b,
         weights_arg |-> w,
         portfolio_weights |-> nw.weights,
         all_tickers |-> IF nw.raised THEN <<>> ELSE nw.weights.keys \o <<b>>,
         fetch_i |-> 1, historical_data |-> EmptyDict, ret |-> NoResult]

\* The local variables after one iteration of the loop of lines 51-64, in which
\* the provider gave the answer.
Fetched(k, answer) ==
    LET ticker == k.all_tickers[k.fetch_i]
    IN  [k EXCEPT !.fetch_i = @ + 1,
                  !.historical_data =
                      IF ~answer.raises /\ SeriesLen(answer.close) > 0
                      THEN DictSet(@, ticker, answer.close)
                      ELSE @]

\* Lines 177-234 and 273-330 on the local variables k: [raised, results], with
\* results = {} when the price matrix is empty.
Outcome(k) ==
    LET has_benchmark == DictHas(k.historical_data, k.benchmark)
        benchmark_data ==
            IF has_benchmark THEN k.historical_data.val[k.benchmark] ELSE EmptySeries
        hd == DictPop(k.historical_data, k.benchmark)
        p == AlignPrices(hd)
        r == FrameReturns(p)
    IN  IF FrameEmpty(p)
        THEN [raised |-> FALSE, results |-> NoResult]
        ELSE IF k.method = "equal"
             THEN BuildResults(p, r, RowMean(r), has_benchmark, benchmark_data, <<>>)
             ELSE BuildResults(p, r, WeightedSum(r, k.portfolio_weights),
                               has_benchmark, benchmark_data,
                               [portfolio_weights |-> k.portfolio_weights])

\* The calls that two callers make at the same time.
ParallelCalls ==
    {StartEqual(<<"A">>, DefaultBenchmark),
     StartEqual(<<"A", "B">>, DefaultBenchmark),
     StartWeighted(Weights(<<"A", "B">>, [A |-> Frac(388, 1000), B |-> Frac(582, 1000)]),
                   DefaultBenchmark),
     StartWeighted(Weights(<<"A", "B">>, [A |-> Zero, B |-> Zero]), DefaultBenchmark)}

\* caller c calls one of the two backtest methods
PCall(c, k) ==
    /\ calls[c].pc = "idle"
    /\ calls' = [calls EXCEPT ![c] = k]
    /\ UNCHANGED <<provider, results, fetch_log>>

\* Mutant of PFetchTicker: historical_data is an attribute of the backtester, so
\* that what one call fetches is also in the mapping of the other.
PFetchTicker_Shared(c) ==
    /\ calls[c].pc = "fetch"
    /\ calls[c].fetch_i <= Len(calls[c].all_tickers)
    /\ LET ticker == calls[c].all_tickers[calls[c].fetch_i]
           answer == provider[ticker]
       IN  /\ fetch_log' = Append(fetch_log, ticker)
           /\ calls' =
                 [d \in Invocations |->
                    IF d = c THEN Fetched(calls[c], answer)
                    ELSE IF calls[d].pc = "fetch" /\ ~answer.raises
                            /\ SeriesLen(answer.close) > 0
                         THEN [calls[d] EXCEPT !.historical_data =
                                                  DictSet(@, ticker, answer.close)]
                         ELSE calls[d]]
    /\ UNCHANGED <<provider, results>>

\* one iteration of the fetch loop of caller c's call
PFetchTicker(c) ==
    /\ calls[c].pc = "fetch"
    /\ calls[c].fetch_i <= Len(calls[c].all_tickers)
    /\ LET ticker == calls[c].all_tickers[calls[c].fetch_i]
       IN  /\ fetch_log' = Append(fetch_log, ticker)
           /\ calls' = [calls EXCEPT ![c] = Fetched(@, provider[ticker])]
    /\ UNCHANGED <<provider, results>>

\* the rest of caller c's call, up to its return or its exception
PFinish(c) ==
    /\ calls[c].pc = "fetch"
    /\ calls[c].fetch_i > Len(calls[c].all_tickers)
    /\ \E out \in {Outcome(calls[c])} :
           /\ calls' = [calls EXCEPT ![c].pc = IF out.raised THEN "raised" ELSE "returned",
                                     ![c].ret = out.results]
           /\ IF out.raised \/ out.results = NoResult
              THEN UNCHANGED results
              ELSE results' = out.results
    /\ UNCHANGED <<provider, fetch_log>>

ParallelProviders ==
    {ProviderOf(FullHistory("A"), Raises, FullHistory(DefaultBenchmark)),
     AlignmentScenario}

ParallelInit == Init /\ provider \in ParallelProviders

ParallelNext ==
    /\ \E c \in Invocations :
          \/ \E k \in ParallelCalls : PCall(c, k)
          \/ PFetchTicker(c)
          \/ PFinish(c)
    /\ UNCHANGED <<pc, method, tickers, benchmark, weights_arg, portfolio_weights,
                   all_tickers, fetch_i, historical_data, warned, prices, returns, ret,
                   metrics_args, metrics_ret, saved_file, printed, wf, portfolio_data,
                   extracted>>

ParallelSpec == ParallelInit /\ [][ParallelNext]_vars

(***************************************************************************)
(* AlphaAgentsWorkflow (workflow/portfolio_workflow.py).  The compiled     *)
(* graph runs the entry node and then follows the one edge that leaves     *)
(* each node until it reaches END; every node receives the state dict,     *)
(* writes into it and returns it.  An agent's answer is a string or a      *)
(* structured (pydantic) object.  wf.visits is the order in which the      *)
(* nodes ran and wf.reads[k] the keys of the state that the k-th of them   *)
(* read before it wrote.                                                   *)
(***************************************************************************)
\* workflow.set_entry_point
EntryPoint == "research"

\* Mutant of Edges: the risk node leads to END.
Edges_Short ==
    [research |-> "analysis", analysis |-> "risk_eval", risk_eval |-> "END",
     portfolio_construction |-> "END"]

\* workflow.add_edge, lines 61-64
Edges ==
    [research |-> "analysis", analysis |-> "risk_eval",
     risk_eval |-> "portfolio_construction", portfolio_construction |-> "END"]

PyNone == [type |-> "NoneType"]
Str(text) == [type |-> "str", value |-> text]

\* what BaseAlphaAgent.run returns: the text of the answer or the structured object
AgentResponses == {Str("answer"), [type |-> "BaseModel", value |-> "answer"]}

IsBaseModel(response) == response.type = "BaseModel"

\* response if isinstance(response, BaseModel) else None
DataOf(response) == IF IsBaseModel(response) THEN response ELSE PyNone

\* str(response) if isinstance(response, BaseModel) else response
SummaryOf(response) ==
    IF IsBaseModel(response) THEN [type |-> "str", of |-> response] ELSE response

\* Each node: [reads, state], the keys it reads and the state it returns.
research_node(state, response) ==
    LET stock_tickers == state.stock_universe
    IN  [reads |-> {"stock_universe", "investment_horizon", "risk_tolerance"},
         state |->
            [state EXCEPT
               !.research_results =
                   [data |-> DataOf(response), summary |-> SummaryOf(response),
                    tickers_researched |-> stock_tickers],
               !.current_step = "research",
               !.messages = Append(@, [agent |-> "Research Agent",
                                       text |-> "Completed research on stocks",
                                       count |-> Len(stock_tickers)])]]

analysis_node(state, response) ==
    LET stock_tickers == state.stock_universe
        research_summary == state.research_results.summary
    IN  [reads |-> {"stock_universe", "research_results", "risk_tolerance"},
         state |->
            [state EXCEPT
               !.analysis_results =
                   [data |-> DataOf(response), summary |-> SummaryOf(response),
                    tickers_analyzed |-> stock_tickers],
               !.current_step = "analysis",
               !.messages = Append(@, [agent |-> "Analysis Agent",
                                       text |-> "Completed analysis with recommendations"])]]

risk_assessment_node(state, response) ==
    LET stock_tickers == state.stock_universe
        analysis_summary == state.analysis_results.summary
    IN  [reads |-> {"stock_universe", "analysis_results", "risk_tolerance",
                    "investment_horizon"},
         state |->
            [state EXCEPT
               !.risk_assessment =
                   [data |-> DataOf(response), summary |-> SummaryOf(response),
                    tickers_assessed |-> stock_tickers],
               !.current_step = "risk_assessment",
               !.messages = Append(@, [agent |-> "Risk Agent",
                                       text |-> "Completed risk assessment"])]]

portfolio_construction_node(state, response) ==
    LET research_summary == state.research_results.summary
        analysis_summary == state.analysis_results.summary
        risk_summary == state.risk_assessment.summary
    IN  [reads |-> {"research_results", "analysis_results", "risk_assessment",
                    "portfolio_size", "risk_tolerance", "investment_horizon"},
         state |->
            [state EXCEPT
               !.portfolio_recommendation =
                   [data |-> DataOf(response), summary |-> SummaryOf(response),
                    portfolio_size |-> state.portfolio_size],
               !.current_step = "portfolio_construction",
               !.messages = Append(@, [agent |-> "Portfolio Agent",
                                       text |-> "Final portfolio constructed"])]]

\* workflow.add_node, lines 54-57
RunNode(node, state, response) ==
    CASE node = "research" -> research_node(state, response)
      [] node = "analysis" -> analysis_node(state, response)
      [] node = "risk_eval" -> risk_assessment_node(state, response)
      [] node = "portfolio_construction" -> portfolio_construction_node(state, response)

Min(a, b) == IF a <= b THEN a ELSE b

\* lines 297-308
InitialState(stock_universe, risk_tolerance, investment_horizon, portfolio_size) ==
    [stock_universe |-> stock_universe,
     risk_tolerance |-> risk_tolerance,
     investment_horizon |-> investment_horizon,
     portfolio_size |-> Min(portfolio_size, Len(stock_universe)),
     research_results |-> <<>>,
     analysis_results |-> <<>>,
     risk_assessment |-> <<>>,
     portfolio_recommendation |-> <<>>,
     current_step |-> "",
     messages |-> <<>>]

\* the default portfolio_size of run
DefaultPortfolioSize == 10

StockUniverses == {<<>>, <<"A">>, <<"A", "B">>}
RiskTolerances == {"low", "moderate", "high"}
InvestmentHorizons == {"short_term", "long_term"}
PortfolioSizes == {1, DefaultPortfolioSize}

\* AlphaAgentsWorkflow.run is called: lines 296-319, up to the entry node
WfCall(stock_universe, risk_tolerance, investment_horizon, portfolio_size) ==
    /\ wf.pc = "idle"
    /\ wf' = [pc |-> EntryPoint,
              state |-> InitialState(stock_universe, risk_tolerance,
                                     investment_horizon, portfolio_size),
              visits |-> <<>>, reads |-> <<>>, ret |-> <<>>]

\* the graph runs the node wf.pc, whose agent gives the response
WfNode(response) ==
    /\ wf.pc \in DOMAIN Edges
    /\ LET out == RunNode(wf.pc, wf.state, response)
       IN  wf' = [wf EXCEPT !.pc = Edges[wf.pc],
                            !.state = out.state,
                            !.visits = Append(@, wf.pc),
                            !.reads = Append(@, out.reads)]

\* workflow.invoke returns the final state and run returns: lines 325-331
WfReturn ==
    /\ wf.pc = "END"
    /\ wf' = [wf EXCEPT !.pc = "returned",
                        !.ret = [portfolio |-> wf.state.portfolio_recommendation,
                                 research |-> wf.state.research_results,
                                 analysis |-> wf.state.analysis_results,
                                 risk |-> wf.state.risk_assessment,
                                 workflow_log |-> wf.state.messages]]

WfNext ==
    /\ \/ \E u \in StockUniverses, t \in RiskTolerances, h \in InvestmentHorizons,
            n \in PortfolioSizes : WfCall(u, t, h, n)
       \/ \E response \in AgentResponses : WfNode(response)
       \/ WfReturn
    /\ UNCHANGED <<provider, results, pc, method, tickers, benchmark, weights_arg,
                   portfolio_weights, all_tickers, fetch_i, fetch_log, historical_data,
                   warned, prices, returns, ret, metrics_args, metrics_ret, saved_file,
                   printed, calls, portfolio_data, extracted>>

WfInit == Init /\ provider = AlignmentScenario

\* invoke runs the graph to its end: a step that can be taken is taken
WorkflowSpec == WfInit /\ [][WfNext]_vars /\ WF_vars(WfNext)

(***************************************************************************)
(* extract_weights_from_portfolio (backtest.py; app.py holds a copy).  An  *)
(* object is the record of its attributes, so that hasattr(o, name) is     *)
(* name \in DOMAIN o; a portfolio is None, a string or an object.          *)
(***************************************************************************)
HasAttr(o, name) == name \in DOMAIN o

\* "not x" for the values a portfolio and its holdings can be
Falsy(x) ==
    \/ x = PyNone
    \/ x.type = "str" /\ x.value = ""
    \/ x.type = "list" /\ x.items = <<>>

PyList(items) == [type |-> "list", items |-> items]

\* Mutant of HoldingWeight: the weight field is always taken for a percentage.
HoldingWeight_Percent(holding, n) ==
    IF HasAttr(holding, "allocation") THEN RDiv(holding.allocation, R(100))
    ELSE IF HasAttr(holding, "weight_percent") THEN RDiv(holding.weight_percent, R(100))
    ELSE IF HasAttr(holding, "weight") THEN RDiv(holding.weight, R(100))
    ELSE RDiv(One, R(n))

\* lines 235-243: the weight of one holding of n
HoldingWeight(holding, n) ==
    IF HasAttr(holding, "allocation") THEN RDiv(holding.allocation, R(100))
    ELSE IF HasAttr(holding, "weight_percent") THEN RDiv(holding.weight_percent, R(100))
    ELSE IF HasAttr(holding, "weight")
         THEN IF RGt(holding.weight, One)
              THEN RDiv(holding.weight, R(100))
              ELSE holding.weight
    ELSE RDiv(One, R(n))

\* lines 231-245: the loop over the holdings, from the empty dict
RECURSIVE WeightsOf(_, _)
WeightsOf(items, n) ==
    IF items = <<>> THEN EmptyDict
    ELSE LET holding == items[Len(items)]
         IN  DictSet(WeightsOf(SubSeq(items, 1, Len(items) - 1), n),
                     holding.ticker, HoldingWeight(holding, n))

\* The value is None (PyNone) or the dict of the weights.
extract_weights_from_portfolio(data) ==
    IF Falsy(data) \/ data.type = "str" THEN PyNone
    ELSE LET holdings ==
                 IF HasAttr(data, "holdings") THEN data.holdings
                 ELSE IF HasAttr(data, "allocations") THEN data.allocations
                 ELSE PyNone
         IN  IF Falsy(holdings) THEN PyNone
             ELSE WeightsOf(holdings.items, Len(holdings.items))

WeightFields == {"allocation", "weight_percent", "weight"}

\* The weight attributes of a holding: none, one of the three fields with a value
\* below, at or above 1, or several fields with different values.
AttrsOfA ==
    {<<>>,
     [allocation |-> Frac(1, 2)],
     [allocation |-> R(40)],
     [weight_percent |-> One],
     [weight |-> Frac(1, 2)],
     [weight |-> R(40)]}

AttrsOfB ==
    {[weight |-> One],
     [weight |-> Frac(3, 2)],
     [allocation |-> R(40), weight |-> Frac(1, 2)],
     [weight_percent |-> R(40), weight |-> Frac(1, 2)],
     [allocation |-> Frac(1, 2), weight_percent |-> R(40), weight |-> One]}

Holdings ==
    {[ticker |-> "A"] @@ a : a \in AttrsOfA} \cup {[ticker |-> "B"] @@ a : a \in AttrsOfB}

HoldingLists == UNION {[1 .. n -> Holdings] : n \in 0 .. MaxHoldings}

Object(attrs) == [type |-> "object"] @@ attrs

PortfolioInputs ==
    {PyNone, Str(""), Str("portfolio"), Object(<<>>),
     Object([holdings |-> PyNone]),
     Object([holdings |-> PyList(<<>>),
             allocations |-> PyList(<<[ticker |-> "A", weight |-> One]>>)])}
    \cup {Object([holdings |-> PyList(hs)]) : hs \in HoldingLists}
    \cup {Object([allocations |-> PyList(hs)]) : hs \in HoldingLists}

ExtractInit ==
    /\ provider = AlignmentScenario
    /\ results = NoResult
    /\ pc = "idle"
    /\ method = "none"
    /\ tickers = <<>>
    /\ benchmark = DefaultBenchmark
    /\ weights_arg = EmptyDict
    /\ portfolio_weights = EmptyDict
    /\ all_tickers = <<>>
    /\ fetch_i = 1
    /\ fetch_log = <<>>
    /\ historical_data = EmptyDict
    /\ warned = FALSE
    /\ prices = EmptyFrame
    /\ returns = EmptyFrame
    /\ ret = NoResult
    /\ metrics_args = NoArgs
    /\ metrics_ret = NotCalled
    /\ saved_file = NoFile
    /\ printed = NothingPrinted
    /\ calls = NoCalls
    /\ wf = NoWorkflow
    /\ portfolio_data \in PortfolioInputs
    /\ extracted = NotExtracted

\* extract_weights_from_portfolio(portfolio_data)
ExtractWeights ==
    /\ ~extracted.called
    /\ extracted' = [called |-> TRUE, value |-> extract_weights_from_portfolio(portfolio_data)]
    /\ UNCHANGED <<provider, results, pc, method, tickers, benchmark, weights_arg,
                   portfolio_weights, all_tickers, fetch_i, fetch_log, historical_data,
                   warned, prices, returns, ret, metrics_args, metrics_ret, saved_file,
                   printed, calls, wf, portfolio_data>>

ExtractNext == ExtractWeights

ExtractSpec == ExtractInit /\ [][ExtractNext]_vars

(***************************************************************************)
(* Vocabulary of the properties.                                           *)
(***************************************************************************)
\* The provider has data for ticker t: it does not raise and its table is not empty.
HasData(t) == ~provider[t].raises /\ SeriesLen(provider[t].close) > 0

\* The call has run to its end after fetch_historical_data returned.
Completed == pc \in {"returned", "raised"} /\ all_tickers # <<>>

\* The fields of the results dict of the equal-weight backtest.
ResultFields ==
    {"portfolio_metrics", "individual_metrics", "portfolio_returns", "portfolio_value",
     "final_value", "total_return_pct", "correlation_matrix", "tickers", "start_date",
     "end_date", "trading_days"}

Dates(series) == Range(series.index)

\* The portfolio tickers of the call for which the provider has data.
WithData == {t \in Range(tickers) : HasData(t)}

(***************************************************************************)
(* C1.  Whatever the provider answers for each ticker (a history of one or *)
(* more rows, an empty table, an exception), a backtest call that has      *)
(* fetched its data does not raise: it returns {} or a result with every   *)
(* field populated.                                                        *)
(***************************************************************************)
C1_NeverRaises ==
    Completed =>
        /\ pc = "returned"
        /\ ret = NoResult \/ ResultFields \subseteq DOMAIN ret

(***************************************************************************)
(* C2.  When the two portfolio tickers have completely disjoint date       *)
(* ranges (every date of one is earlier than every date of the other), a   *)
(* backtest that returns returns {}, not a populated result.               *)
(***************************************************************************)
DisjointRanges(a, b) ==
    \/ \A d \in Dates(a) : \A e \in Dates(b) : d < e
    \/ \A d \in Dates(a) : \A e \in Dates(b) : e < d

C2_DisjointRangesFail ==
    (/\ Completed
     /\ pc = "returned"
     /\ Len(tickers) = 2
     /\ benchmark \notin Range(tickers)
     /\ \A t \in Range(tickers) : HasData(t)
     /\ DisjointRanges(provider[tickers[1]].close, provider[tickers[2]].close))
    => ret = NoResult

(***************************************************************************)
(* C3 as stated.  If the fetch of any portfolio ticker fails (empty table  *)
(* or exception), a backtest that returns returns {}.                      *)
(***************************************************************************)
C3_AnyFailureFails ==
    (pc = "returned" /\ all_tickers # <<>> /\ \E t \in Range(tickers) : ~HasData(t))
    => ret = NoResult

(***************************************************************************)
(* C3 as amended.  If the fetch of every portfolio ticker fails, the       *)
(* backtest returns {}; when only some fail, a result that is returned is  *)
(* computed from the remaining tickers: its tickers all have data.         *)
(***************************************************************************)
C3_AllFailuresFail ==
    Completed =>
        /\ WithData = {} => (pc = "returned" /\ ret = NoResult)
        /\ ret # NoResult => Range(ret.tickers) \subseteq WithData

C3_Witness ==
    /\ Completed
    /\ tickers # <<>>
    /\ WithData = {}
    /\ ret = NoResult

(***************************************************************************)
(* C4.  When one or more but not all portfolio tickers yield no data (and  *)
(* the benchmark is not one of the portfolio tickers), the backtest        *)
(* returns a non-empty result whose tickers list is exactly the tickers    *)
(* that have data.                                                         *)
(***************************************************************************)
C4_PartialCoverageProceeds ==
    (/\ Completed
     /\ benchmark \notin Range(tickers)
     /\ WithData # {}
     /\ WithData # Range(tickers))
    => /\ pc = "returned"
       /\ ret # NoResult
       /\ Range(ret.tickers) = WithData

(***************************************************************************)
(* C5.  fetch_historical_data does not raise: it asks the provider for the *)
(* requested tickers one at a time in input order, and the mapping it has  *)
(* built holds exactly the tickers asked so far for which the provider     *)
(* returned a non-empty table without raising, each with that table; a     *)
(* ticker whose fetch is empty or raises is left out and the fetch goes on *)
(* with the next ticker.                                                   *)
(***************************************************************************)
C5_FetchOmitsFailures ==
    pc = "fetch" =>
        /\ fetch_i <= Len(all_tickers) + 1
        /\ fetch_log = SubSeq(all_tickers, 1, fetch_i - 1)
        /\ Range(historical_data.keys) = {t \in Range(fetch_log) : HasData(t)}
        /\ \A t \in Range(historical_data.keys) :
               historical_data.val[t] = provider[t].close
        /\ historical_data.keys = Dedup(SelectSeq(fetch_log, HasData))

C5_Witness ==
    /\ pc = "fetch"
    /\ fetch_i > Len(all_tickers)
    /\ \E j, k \in DOMAIN all_tickers :
          /\ j < k
          /\ provider[all_tickers[j]].raises
          /\ all_tickers[k] \in Range(historical_data.keys)

(***************************************************************************)
(* C6.  The aligned price matrix has a row for exactly those dates d of    *)
(* the union of the tickers' dates at which every ticker has an observed   *)
(* close at d or earlier, in increasing order, and each cell holds the     *)
(* ticker's close at its latest observed date <= d.  For ticker A on the   *)
(* dates {1,2,3,5} and ticker B on {1,2,4,5} the index is 1..5, B's day-3  *)
(* value is B's day-2 close and A's day-4 value is A's day-3 close.        *)
(***************************************************************************)
\* The dates on which ticker t of historical_data has an observed close.
Observed(t) == Dates(historical_data.val[t])

LatestAtOrBefore(t, d) ==
    CHOOSE e \in Observed(t) : e <= d /\ \A f \in Observed(t) : f <= d => f <= e

C6_Alignment ==
    Completed =>
        LET K == Range(historical_data.keys)
            U == UNION {Observed(t) : t \in K}
        IN  /\ prices.columns = historical_data.keys
            /\ Range(prices.index) = {d \in U : \A t \in K : \E e \in Observed(t) : e <= d}
            /\ \A k \in 1 .. Len(prices.index) - 1 : prices.index[k] < prices.index[k + 1]
            /\ \A t \in K : \A d \in Range(prices.index) :
                   prices.cell[t][d] = historical_data.val[t].val[LatestAtOrBefore(t, d)]
            /\ (provider = AlignmentScenario /\ tickers = <<"A", "B">>
                    /\ benchmark = DefaultBenchmark)
               => /\ prices.index = <<1, 2, 3, 4, 5>>
                  /\ prices.cell["B"][3] = R(CloseTable["B"][2])
                  /\ prices.cell["A"][4] = R(CloseTable["A"][3])

C6_Witness ==
    /\ Completed
    /\ provider = AlignmentScenario
    /\ tickers = <<"A", "B">>
    /\ benchmark = DefaultBenchmark
    /\ Len(prices.index) = 5

(***************************************************************************)
(* C7 as stated.  Every date of the aligned price matrix is a date present *)
(* in the fetched series of every ticker of the matrix.                    *)
(***************************************************************************)
C7_InnerJoinOnly ==
    Completed =>
        \A d \in Range(prices.index) : \A t \in Range(prices.columns) : d \in Observed(t)

(***************************************************************************)
(* C7 as amended.  Every date of the aligned price matrix is a date of the *)
(* union of the tickers' dates at which every ticker of the matrix has an  *)
(* observed or forward-filled close (the date is not before the ticker's   *)
(* first date); the dates present in every ticker's series are all in the  *)
(* matrix; all columns share the same date index and length and no cell is *)
(* missing.                                                                *)
(***************************************************************************)
C7_FilledJoin ==
    Completed =>
        LET K == Range(prices.columns)
        IN  /\ \A d \in Range(prices.index) :
                  /\ \E t \in K : d \in Observed(t)
                  /\ \A t \in K : \E e \in Observed(t) : e <= d
            /\ \A d \in UNION {Observed(t) : t \in K} :
                  (\A t \in K : d \in Observed(t)) => d \in Range(prices.index)
            /\ \A t \in K :
                  /\ DOMAIN prices.cell[t] = Range(prices.index)
                  /\ \A d \in Range(prices.index) : ~IsNaN(prices.cell[t][d])

C7_Witness ==
    /\ Completed
    /\ ret # NoResult
    /\ \E d \in Range(prices.index) : \E t \in Range(prices.columns) : d \notin Observed(t)

(***************************************************************************)
(* C8.  For an aligned price matrix with m >= 1 rows the return frame has  *)
(* exactly m - 1 rows: its dates are the matrix's dates from the second    *)
(* on, its row for the k-th date is price[k] / price[k-1] - 1 for each     *)
(* ticker, and it has no missing value; the result's trading_days is m,    *)
(* the length of portfolio_returns plus one.                               *)
(***************************************************************************)
C8_ReturnFrame ==
    (Completed /\ ~FrameEmpty(prices)) =>
        LET m == Len(prices.index)
        IN  /\ Len(returns.index) = m - 1
            /\ returns.index = Tail(prices.index)
            /\ returns.columns = prices.columns
            /\ \A t \in Range(prices.columns) : \A k \in 2 .. m :
                  /\ ~IsNaN(returns.cell[t][prices.index[k]])
                  /\ returns.cell[t][prices.index[k]] =
                        RSub(RDiv(prices.cell[t][prices.index[k]],
                                  prices.cell[t][prices.index[k - 1]]), One)
            /\ ret # NoResult =>
                  /\ ret.trading_days = m
                  /\ m = SeriesLen(ret.portfolio_returns) + 1

C8_Witness ==
    /\ Completed
    /\ ret # NoResult
    /\ Len(prices.index) >= 3
    /\ Len(prices.columns) = 2

(***************************************************************************)
(* C9.  In every non-empty result portfolio_value has one entry per        *)
(* portfolio return, its first entry is initial_capital * (1 + r_1), each  *)
(* later entry is the entry before it times (1 + r_k), and final_value is  *)
(* its last entry.  For the returns 0.01, -0.02, 0.03 and the initial      *)
(* capital 100000 the trajectory is 101000, 98980, 101949.4.               *)
(***************************************************************************)
DayByDay(res) ==
    LET r == res.portfolio_returns
        v == res.portfolio_value
        n == Len(r.index)
    IN  /\ n >= 1
        /\ v.index = r.index
        /\ v.val[r.index[1]] = RMul(R(InitialCapital), RAdd(One, r.val[r.index[1]]))
        /\ \A k \in 2 .. n :
              v.val[r.index[k]] = RMul(v.val[r.index[k - 1]], RAdd(One, r.val[r.index[k]]))
        /\ res.final_value = v.val[r.index[n]]

C9_Compounding ==
    /\ ret # NoResult => DayByDay(ret)
    /\ Values(PortfolioValue([index |-> <<1, 2, 3>>,
                              val |-> <<Frac(1, 100), Frac(-2, 100), Frac(3, 100)>>]))
          = <<R(101000), R(98980), Frac(1019494, 10)>>

C9_Witness ==
    /\ ret # NoResult
    /\ Cardinality({d \in Dates(ret.portfolio_returns) :
                       ret.portfolio_returns.val[d] # Zero}) >= 2

(***************************************************************************)
(* C10.  In backtest_weighted_portfolio, when the supplied weights sum to  *)
(* s with |s - 1| > 0.01, every weight is replaced by weight / s, so that  *)
(* (s being non-zero, as the division requires) the weights used sum to 1  *)
(* and keep their pairwise ratios; when |s - 1| <= 0.01 the weights are    *)
(* used unchanged.  The result's portfolio_weights holds the weights used: *)
(* the portfolio return of each date is the sum of the tickers' returns    *)
(* times these weights.                                                    *)
(***************************************************************************)
\* The weighted call got past the validation of its weights.
WeightsInUse == method = "weighted" /\ pc \in {"fetch", "returned"}

C10_Renormalization ==
    WeightsInUse =>
        LET s == TotalWeight(weights_arg)
            K == Range(weights_arg.keys)
        IN  /\ portfolio_weights.keys = weights_arg.keys
            /\ RGt(RAbs(RSub(s, One)), Frac(1, 100)) =>
                  /\ \A t \in K : portfolio_weights.val[t] = RDiv(weights_arg.val[t], s)
                  /\ s # Zero => TotalWeight(portfolio_weights) = One
                  /\ \A a \in K : \A b \in K :
                        RMul(portfolio_weights.val[a], weights_arg.val[b])
                           = RMul(portfolio_weights.val[b], weights_arg.val[a])
            /\ RLe(RAbs(RSub(s, One)), Frac(1, 100)) => portfolio_weights = weights_arg
            /\ ret # NoResult =>
                  /\ ret.portfolio_weights = portfolio_weights
                  /\ \A d \in Dates(ret.portfolio_returns) :
                        ret.portfolio_returns.val[d] =
                           SumSeq([k \in DOMAIN returns.columns |->
                                     RMul(returns.cell[returns.columns[k]][d],
                                          ret.portfolio_weights.val[returns.columns[k]])])

C10_Witness ==
    /\ WeightsInUse
    /\ ret # NoResult
    /\ TotalWeight(weights_arg) = Frac(97, 100)
    /\ TotalWeight(portfolio_weights) = One

(***************************************************************************)
(* Vocabulary of the claims on the portfolio and instrument return series. *)
(***************************************************************************)
\* The simple return of ticker t at the k-th date (k >= 2) of the price matrix.
SimpleReturn(t, k) ==
    RSub(RDiv(prices.cell[t][prices.index[k]], prices.cell[t][prices.index[k - 1]]), One)

\* The weight of ticker t that the caller's mapping gives after renormalization.
RenormalizedWeight(t) ==
    LET s == TotalWeight(weights_arg)
    IN  IF RGt(RAbs(RSub(s, One)), Frac(1, 100))
        THEN RDiv(weights_arg.val[t], s)
        ELSE weights_arg.val[t]

(***************************************************************************)
(* C11.  In a non-empty result of the weighted backtest the portfolio      *)
(* return of each date is the sum, over the instruments of the price       *)
(* matrix, of the renormalized weight times the instrument's return at     *)
(* that date.  An instrument of weight zero contributes nothing (the sum   *)
(* over the instruments of non-zero weight is the same) and still has an   *)
(* entry in individual_metrics and a row and a column in                   *)
(* correlation_matrix.                                                     *)
(***************************************************************************)
C11_WeightedDotProduct ==
    (method = "weighted" /\ ret # NoResult) =>
        LET cols == prices.columns
            held == SelectSeq(cols, LAMBDA t : RenormalizedWeight(t) # Zero)
            pr == ret.portfolio_returns
        IN  /\ pr.index = Tail(prices.index)
            /\ \A k \in 2 .. Len(prices.index) :
                  /\ pr.val[prices.index[k]] =
                        SumSeq([j \in DOMAIN cols |->
                                  RMul(RenormalizedWeight(cols[j]), SimpleReturn(cols[j], k))])
                  /\ pr.val[prices.index[k]] =
                        SumSeq([j \in DOMAIN held |->
                                  RMul(RenormalizedWeight(held[j]), SimpleReturn(held[j], k))])
            /\ \A t \in Range(cols) :
                  /\ t \in DOMAIN ret.individual_metrics
                  /\ t \in Range(ret.correlation_matrix.columns)
                  /\ t \in DOMAIN ret.correlation_matrix.cell
                  /\ \A u \in Range(cols) : t \in DOMAIN ret.correlation_matrix.cell[u]

C11_Witness ==
    /\ method = "weighted"
    /\ ret # NoResult
    /\ Len(prices.columns) = 2
    /\ \E t \in Range(prices.columns) :
          /\ RenormalizedWeight(t) = Zero
          /\ \E k \in 2 .. Len(prices.index) : SimpleReturn(t, k) # Zero
    /\ \E d \in Dates(ret.portfolio_returns) : ret.portfolio_returns.val[d] # Zero

(***************************************************************************)
(* C12.  In a non-empty result of the equal-weight backtest the portfolio  *)
(* return of each date is the arithmetic mean of the returns at that date  *)
(* of the tickers of the aligned price matrix, and                         *)
(* portfolio_metrics.total_return is 100 * (the product over the dates of  *)
(* (1 + that mean) - 1).                                                   *)
(***************************************************************************)
MeanReturn(k) ==
    RDiv(SumSeq([j \in DOMAIN prices.columns |-> SimpleReturn(prices.columns[j], k)]),
         R(Len(prices.columns)))

OwnSeriesMetrics(t) ==
    calculate_performance_metrics(calculate_returns(provider[t].close), FALSE, EmptySeries)

C13_OwnSeriesOnly ==
    ret # NoResult =>
        \A t \in Range(ret.tickers) :
            /\ ~OwnSeriesMetrics(t).raised
            /\ ret.individual_metrics[t] = OwnSeriesMetrics(t).metrics

(***************************************************************************)
(* C13, amended.  For every ticker of a non-empty result,                  *)
(* individual_metrics[ticker] is calculate_performance_metrics, without a  *)
(* benchmark, of the simple returns of the ticker's column of the aligned  *)
(* price matrix (forward-filled, on the dates that every ticker of the     *)
(* matrix has reached); it is the computation on the ticker's own fetched  *)
(* series when all the tickers of the matrix were fetched on the same      *)
(* dates.                                                                  *)
(***************************************************************************)
ColumnMetrics(t) ==
    calculate_performance_metrics(
        calculate_returns([index |-> prices.index, val |-> prices.cell[t]]),
        FALSE, EmptySeries)

SameDates == \A t \in Range(prices.columns) : \A u \in Range(prices.columns) :
                Dates(provider[t].close) = Dates(provider[u].close)

C13_AlignedColumn ==
    ret # NoResult =>
        /\ DOMAIN ret.individual_metrics = Range(ret.tickers)
        /\ \A t \in Range(ret.tickers) :
              /\ ~ColumnMetrics(t).raised
              /\ ret.individual_metrics[t] = ColumnMetrics(t).metrics
              /\ SameDates => ret.individual_metrics[t] = OwnSeriesMetrics(t).metrics

C13_Witness ==
    /\ ret # NoResult
    /\ Len(ret.tickers) = 2
    /\ ~SameDates
    /\ \E t \in Range(ret.tickers) :
          /\ ~OwnSeriesMetrics(t).raised
          /\ ret.individual_metrics[t] # OwnSeriesMetrics(t).metrics

(***************************************************************************)
(* Vocabulary of the claims on calculate_performance_metrics.              *)
(***************************************************************************)
\* The direct call was made / returned a dict.
MetricsCalled == metrics_ret.called
MetricsReturned == MetricsCalled /\ ~metrics_ret.raised

\* the values of the returns argument
ArgReturns == Values(metrics_args.returns)

AllEqual(xs) == \A k \in DOMAIN xs : xs[k] = xs[1]

(***************************************************************************)
(* C14.  A call of calculate_performance_metrics on a series of two or     *)
(* more equal values reports volatility = 0 and sharpe_ratio = 0; for      *)
(* every series the sharpe_ratio is annualized_return / volatility when    *)
(* volatility > 0 and 0 otherwise.                                         *)
(***************************************************************************)
C14_ConstantSeries ==
    MetricsCalled =>
        LET m == metrics_ret.metrics
        IN  /\ (Len(ArgReturns) >= 2 /\ AllEqual(ArgReturns)) =>
                  /\ ~metrics_ret.raised
                  /\ ~Positive(m.volatility)
                  /\ m.volatility.radicand = Zero
                  /\ m.sharpe_ratio = ZeroRatio
            /\ MetricsReturned =>
                  m.sharpe_ratio = IF Positive(m.volatility)
                                   THEN RatioOf(m.annualized_return, m.volatility)
                                   ELSE ZeroRatio

(***************************************************************************)
(* C15.  The dict that calculate_performance_metrics returns for a series  *)
(* of fewer than two values holds the volatility 0, a number and not NaN.  *)
(***************************************************************************)
C15_ShortSeriesVolatility ==
    (MetricsReturned /\ Len(ArgReturns) < 2) =>
        /\ ~IsNaN(metrics_ret.metrics.volatility.radicand)
        /\ metrics_ret.metrics.volatility.radicand = Zero

(***************************************************************************)
(* C16.  A call of calculate_performance_metrics on the empty series       *)
(* returns a dict whose win_rate is 0; on a series of n >= 1 values the    *)
(* win_rate is 100 * (the number of values > 0) / n, within 0 .. 100, and  *)
(* a return of zero is not a win.                                          *)
(***************************************************************************)
Wins == Cardinality({k \in DOMAIN ArgReturns : RGt(ArgReturns[k], Zero)})

C16_WinRate ==
    MetricsCalled =>
        /\ ~metrics_ret.raised
        /\ LET w == metrics_ret.metrics.win_rate
               n == Len(ArgReturns)
           IN  /\ n = 0 => w = Zero
               /\ n >= 1 => w = Frac(100 * Wins, n)
               /\ RLe(Zero, w) /\ RLe(w, R(100))

(***************************************************************************)
(* C17.  max_drawdown is 100 * the minimum over t of                       *)
(* (cum[t] - runningMax[t]) / runningMax[t], with cum[t] the product of    *)
(* (1 + r) over the first t returns and runningMax[t] the largest of       *)
(* cum[1..t].  With every return above -1 it is never positive, never      *)
(* below -100, and 0 when no cum[t] is below an earlier one.               *)
(***************************************************************************)
Cum(t) == ProdSeq([k \in 1 .. t |-> RAdd(One, ArgReturns[k])])

RunningMax(t) == CHOOSE x \in {Cum(u) : u \in 1 .. t} : \A u \in 1 .. t : RLe(Cum(u), x)

DrawdownAt(t) == RDiv(RSub(Cum(t), RunningMax(t)), RunningMax(t))

C17_MaxDrawdown ==
    MetricsReturned =>
        LET n == Len(ArgReturns)
            dd == metrics_ret.metrics.max_drawdown
        IN  /\ \E t \in 1 .. n : dd = RMul(R(100), DrawdownAt(t))
            /\ \A t \in 1 .. n : RLe(dd, RMul(R(100), DrawdownAt(t)))
            /\ (\A k \in 1 .. n : RGt(ArgReturns[k], R(-1))) =>
                  /\ RLe(dd, Zero)
                  /\ RLe(R(-100), dd)
                  /\ (\A t \in 1 .. n : \A u \in 1 .. t : RLe(Cum(u), Cum(t))) => dd = Zero

C17_Witness ==
    /\ MetricsReturned
    /\ Len(ArgReturns) = 3
    /\ RLt(Cum(2), Cum(1))
    /\ RLt(Cum(2), Cum(3))
    /\ RLt(Cum(3), Cum(1))
    /\ metrics_ret.metrics.max_drawdown = RMul(R(100), DrawdownAt(2))

(***************************************************************************)
(* C18.  In a non-empty result the four benchmark-relative metrics         *)
(* (correlation_to_benchmark, tracking_error, information_ratio, alpha)    *)
(* are in portfolio_metrics all together exactly when the provider has     *)
(* data for the benchmark and a date of the benchmark's returns is a date  *)
(* of the portfolio's returns; otherwise none of them is there.  A         *)
(* backtest that returns with data for a portfolio ticker returns a        *)
(* non-empty result whatever the provider has for the benchmark.           *)
(* information_ratio is 0 whenever tracking_error is not positive.         *)
(***************************************************************************)
BenchmarkFields == {"correlation_to_benchmark", "tracking_error", "information_ratio", "alpha"}

\* The dates of the simple returns of a close series: all but its first date.
ReturnDates(close) == Range(Tail(close.index))

SharesDate ==
    /\ HasData(benchmark)
    /\ ReturnDates(provider[benchmark].close) \cap Dates(ret.portfolio_returns) # {}

C18_BenchmarkFields ==
    /\ ret # NoResult =>
          LET m == ret.portfolio_metrics
          IN  /\ SharesDate => BenchmarkFields \subseteq DOMAIN m
              /\ ~SharesDate => BenchmarkFields \cap DOMAIN m = {}
              /\ (BenchmarkFields \subseteq DOMAIN m /\ ~Positive(m.tracking_error))
                    => m.information_ratio = ZeroRatio
    /\ (Completed /\ pc = "returned" /\ WithData \ {benchmark} # {}) => ret # NoResult

C18_Witness ==
    /\ ret # NoResult
    /\ HasData(benchmark)
    /\ ~SharesDate
    /\ BenchmarkFields \cap DOMAIN ret.portfolio_metrics = {}

(***************************************************************************)
(* C19.  The benchmark is fetched with the portfolio tickers, after them.  *)
(* When the benchmark symbol is not a portfolio ticker it is no column of  *)
(* the price matrix, the dates of the matrix are those that the portfolio  *)
(* tickers with data give by themselves, and in a non-empty result it is   *)
(* not in tickers, individual_metrics or correlation_matrix.               *)
(***************************************************************************)
\* The dates of the matrix of the portfolio tickers alone: the dates of their
\* union from which every one of them has a close.
PortfolioDates ==
    {d \in UNION {Dates(provider[t].close) : t \in WithData} :
        \A t \in WithData : \E e \in Dates(provider[t].close) : e <= d}

C19_BenchmarkExcluded ==
    (Completed /\ benchmark \notin Range(tickers)) =>
        /\ fetch_log = tickers \o <<benchmark>>
        /\ benchmark \notin Range(prices.columns)
        /\ Range(prices.columns) = WithData
        /\ Range(prices.index) = PortfolioDates
        /\ ret # NoResult =>
              /\ benchmark \notin Range(ret.tickers)
              /\ benchmark \notin DOMAIN ret.individual_metrics
              /\ benchmark \notin Range(ret.correlation_matrix.columns)
              /\ benchmark \notin DOMAIN ret.correlation_matrix.cell

C19_Witness ==
    /\ Completed
    /\ benchmark \notin Range(tickers)
    /\ HasData(benchmark)
    /\ ret # NoResult
    /\ Len(ret.tickers) = 2
    /\ Dates(provider[benchmark].close) # Range(prices.index)
    /\ BenchmarkFields \subseteq DOMAIN ret.portfolio_metrics

(***************************************************************************)
(* C20 as stated.  When save_results writes its file, every field of the   *)
(* result that the backtester holds is a field of the written object.      *)
(***************************************************************************)
C20_EveryFieldSaved ==
    [][saved_file' # saved_file =>
          DOMAIN results \subseteq DOMAIN saved_file'.data]_vars

(***************************************************************************)
(* C20 as amended.  save_results writes only when the backtester holds a   *)
(* result, and the written object has exactly the fields                   *)
(* portfolio_metrics, individual_metrics, portfolio_weights (the empty     *)
(* mapping when the result has none), final_value, total_return_pct,       *)
(* tickers, start_date, end_date, trading_days and correlation_matrix,     *)
(* each with the value of the result, the correlation matrix as a mapping  *)
(* column -> row -> value; portfolio_returns and portfolio_value are not   *)
(* written.                                                                *)
(***************************************************************************)
SavedFields ==
    {"portfolio_metrics", "individual_metrics", "portfolio_weights", "final_value",
     "total_return_pct", "tickers", "start_date", "end_date", "trading_days",
     "correlation_matrix"}

C20_SavedSubset ==
    [][saved_file' # saved_file =>
          LET data == saved_file'.data
          IN  /\ results # NoResult
              /\ saved_file'.written
              /\ DOMAIN data = SavedFields
              /\ \A f \in SavedFields \ {"portfolio_weights", "correlation_matrix"} :
                    data[f] = results[f]
              /\ data.portfolio_weights =
                    IF "portfolio_weights" \in DOMAIN results
                    THEN results.portfolio_weights ELSE EmptyDict
              /\ data.correlation_matrix.keys = results.tickers
              /\ \A c \in Range(results.tickers) : \A r \in Range(results.tickers) :
                    data.correlation_matrix.val[c].val[r] =
                       results.correlation_matrix.cell[c][r]]_vars

C20_Witness ==
    /\ saved_file.written
    /\ results # NoResult
    /\ "portfolio_weights" \in DOMAIN results
    /\ saved_file.data.portfolio_weights = EmptyDict
    /\ Len(saved_file.data.tickers) = 2

(***************************************************************************)
(* C21.  backtest_equal_weight_portfolio prints its partial-coverage       *)
(* warning exactly when one or more of the requested portfolio tickers     *)
(* yielded no data, whether or not the benchmark was fetched.              *)
(***************************************************************************)
C21_PartialCoverageWarning ==
    (Completed /\ method = "equal") =>
        (warned <=> WithData # Range(tickers))

(***************************************************************************)
(* Vocabulary of C22: what a call returns when it runs by itself, from the *)
(* start of its fetch loop to its end, under the provider's answers.       *)
(***************************************************************************)
RECURSIVE FetchRest(_)
FetchRest(k) ==
    IF k.fetch_i > Len(k.all_tickers) THEN k
    ELSE FetchRest(Fetched(k, provider[k.all_tickers[k.fetch_i]]))

\* The local variables with which the call of k started its fetch loop.
StartOf(k) ==
    [k EXCEPT !.pc = "fetch", !.fetch_i = 1, !.historical_data = EmptyDict,
              !.ret = NoResult]

Alone(k) == Outcome(FetchRest(StartOf(k)))

\* Caller c's call has run to its end after its fetch loop.
Done(c) == calls[c].pc \in {"returned", "raised"} /\ calls[c].all_tickers # <<>>

ReturnedAlone(c) ==
    LET out == Alone(calls[c])
    IN  /\ (calls[c].pc = "raised") = out.raised
        /\ calls[c].ret = out.results

\* Caller c holds a non-empty result.
HoldsResult(c) == Done(c) /\ calls[c].pc = "returned" /\ calls[c].ret # NoResult

(***************************************************************************)
(* C22 as stated.  When two backtest calls on one PortfolioBacktester      *)
(* interleave, each call returns what its own arguments and the provider   *)
(* data determine, and no call overwrites state that the caller of the     *)
(* other depends on: the backtester's last-results field, which a caller   *)
(* reads through print_results() and save_results(), is the result that    *)
(* the caller's own call returned.                                         *)
(***************************************************************************)
C22_NoSharedState ==
    \A c \in Invocations :
        /\ Done(c) => ReturnedAlone(c)
        /\ HoldsResult(c) => results = calls[c].ret

(***************************************************************************)
(* C22 as amended.  When two backtest calls on one PortfolioBacktester     *)
(* interleave, each call returns what its own arguments and the provider   *)
(* data determine; the only state they share is the last-results field,    *)
(* which a call that returns a non-empty result overwrites: it holds the   *)
(* result of one of the calls that returned a non-empty result, and is     *)
(* empty when no call has.                                                 *)
(***************************************************************************)
C22_IndependentReturns ==
    /\ \A c \in Invocations : Done(c) => ReturnedAlone(c)
    /\ \/ results = NoResult /\ \A c \in Invocations : ~HoldsResult(c)
       \/ \E c \in Invocations : HoldsResult(c) /\ results = calls[c].ret

\* Both calls were in their fetch loops at the same time (A was asked for twice
\* before anything else) and returned different non-empty results.
C22_Witness ==
    /\ \A c \in Invocations : HoldsResult(c)
    /\ calls["c1"].ret # calls["c2"].ret
    /\ Len(fetch_log) >= 2
    /\ fetch_log[1] = "A"
    /\ fetch_log[2] = "A"
    /\ provider = AlignmentScenario

(***************************************************************************)
(* Vocabulary of C23.                                                      *)
(***************************************************************************)
Stages == <<"research", "analysis", "risk_eval", "portfolio_construction">>

\* The key of the state that each stage writes its output to.
OutputOf ==
    [research |-> "research_results", analysis |-> "analysis_results",
     risk_eval |-> "risk_assessment", portfolio_construction |-> "portfolio_recommendation"]

AgentOf ==
    [research |-> "Research Agent", analysis |-> "Analysis Agent",
     risk_eval |-> "Risk Agent", portfolio_construction |-> "Portfolio Agent"]

IsPrefix(s, t) == Len(s) <= Len(t) /\ \A k \in DOMAIN s : s[k] = t[k]

\* The stages ran in order without repetition, each read no output but those of
\* the stages before it, and the log holds one message per stage that ran.
InStageOrder ==
    /\ IsPrefix(wf.visits, Stages)
    /\ \A k \in DOMAIN wf.reads :
          wf.reads[k] \cap Range(OutputOf) \subseteq {OutputOf[Stages[j]] : j \in 1 .. k - 1}
    /\ wf.pc \notin {"idle", "returned"} =>
          /\ Len(wf.state.messages) = Len(wf.visits)
          /\ \A k \in DOMAIN wf.visits : wf.state.messages[k].agent = AgentOf[Stages[k]]
          /\ wf.state.current_step # "" => Len(wf.visits) > 0

(***************************************************************************)
(* C23.  AlphaAgentsWorkflow.run executes the four stages research,        *)
(* analysis, risk assessment and portfolio construction exactly once each, *)
(* in that order, with no branching or retry, and then returns; each stage *)
(* reads only outputs written by earlier stages, and the returned          *)
(* workflow_log holds exactly the four messages of the stages in stage     *)
(* order.                                                                  *)
(***************************************************************************)
C23_FourStages ==
    /\ [](/\ InStageOrder
          /\ wf.pc = "returned" =>
                /\ wf.visits = Stages
                /\ Len(wf.ret.workflow_log) = 4
                /\ \A k \in 1 .. 4 : wf.ret.workflow_log[k].agent = AgentOf[Stages[k]]
                /\ wf.ret.research = wf.state.research_results
                /\ wf.ret.portfolio = wf.state.portfolio_recommendation)
    /\ (wf.pc = EntryPoint) ~> (wf.pc = "returned")

C23_Witness ==
    /\ wf.pc = "returned"
    /\ Len(wf.ret.workflow_log) = 4
    /\ wf.ret.research.data = PyNone
    /\ wf.ret.portfolio.data # PyNone
    /\ wf.ret.portfolio.portfolio_size = 2
    /\ wf.ret.workflow_log[1].count = 2

(***************************************************************************)
(* Vocabulary of C24.                                                      *)
(***************************************************************************)
\* The portfolio is missing, empty or a string.
NoPortfolioGiven ==
    portfolio_data = PyNone \/ portfolio_data.type = "str"

\* The list of holdings that the portfolio carries under holdings or, when it has
\* no such attribute, under allocations; the empty list when it carries none.
GivenHoldings ==
    IF NoPortfolioGiven THEN <<>>
    ELSE LET named == IF "holdings" \in DOMAIN portfolio_data
                      THEN portfolio_data.holdings
                      ELSE IF "allocations" \in DOMAIN portfolio_data
                           THEN portfolio_data.allocations
                           ELSE PyNone
         IN  IF named = PyNone THEN <<>> ELSE named.items

\* The last holding of ticker t in the list.
LastHolding(t) ==
    LET ks == {k \in DOMAIN GivenHoldings : GivenHoldings[k].ticker = t}
    IN  GivenHoldings[CHOOSE k \in ks : \A j \in ks : j <= k]

CarriesWeight(h) == DOMAIN h \cap WeightFields # {}

\* The value that a holding carries under the first of the accepted field names
\* it has.
Carried(h) ==
    IF "allocation" \in DOMAIN h THEN h.allocation
    ELSE IF "weight_percent" \in DOMAIN h THEN h.weight_percent
    ELSE h.weight

Extracted == extracted.called

(***************************************************************************)
(* C24 as stated.  extract_weights_from_portfolio returns None for a       *)
(* missing, empty or string portfolio; otherwise the weight of a ticker is *)
(* the value its holding carries under allocation, weight_percent or       *)
(* weight, divided by 100 when it is greater than 1 and unchanged when it  *)
(* is less than or equal to 1.                                             *)
(***************************************************************************)
C24_UnitHeuristic ==
    Extracted =>
        /\ NoPortfolioGiven => extracted.value = PyNone
        /\ extracted.value # PyNone =>
              \A t \in Range(extracted.value.keys) :
                  LET h == LastHolding(t)
                  IN  CarriesWeight(h) =>
                         extracted.value.val[t] =
                            IF RGt(Carried(h), One)
                            THEN RDiv(Carried(h), R(100))
                            ELSE Carried(h)

(***************************************************************************)
(* C24 as amended.  extract_weights_from_portfolio returns None for a      *)
(* missing, empty or string portfolio and for a portfolio without a        *)
(* non-empty list of holdings; otherwise it returns one weight per ticker  *)
(* of the holdings, taken from the ticker's last holding: the value of     *)
(* allocation divided by 100, else the value of weight_percent divided by  *)
(* 100 (both whatever the value), else the value of weight, divided by 100 *)
(* when it is greater than 1 and unchanged when it is less than or equal   *)
(* to 1, else 1 / (number of holdings).                                    *)
(***************************************************************************)
C24_PercentFields ==
    Extracted =>
        /\ (extracted.value = PyNone) <=> (GivenHoldings = <<>>)
        /\ extracted.value # PyNone =>
              /\ Range(extracted.value.keys) =
                    {GivenHoldings[k].ticker : k \in DOMAIN GivenHoldings}
              /\ \A t \in Range(extracted.value.keys) :
                    LET h == LastHolding(t)
                        w == extracted.value.val[t]
                    IN  /\ "allocation" \in DOMAIN h => w = RDiv(h.allocation, R(100))
                        /\ ("allocation" \notin DOMAIN h /\ "weight_percent" \in DOMAIN h)
                              => w = RDiv(h.weight_percent, R(100))
                        /\ (DOMAIN h \cap WeightFields = {"weight"} /\ RGt(h.weight, One))
                              => w = RDiv(h.weight, R(100))
                        /\ (DOMAIN h \cap WeightFields = {"weight"} /\ RLe(h.weight, One))
                              => w = h.weight
                        /\ ~CarriesWeight(h) => w = Frac(1, Len(GivenHoldings))

\* An allocation of 0.5 became 0.005 and a weight of 1 stayed 1.
C24_Witness ==
    /\ Extracted
    /\ extracted.value # PyNone
    /\ Len(GivenHoldings) = 2
    /\ GivenHoldings[1] = [ticker |-> "A", allocation |-> Frac(1, 2)]
    /\ GivenHoldings[2] = [ticker |-> "B", weight |-> One]
    /\ extracted.value.val["A"] = Frac(1, 200)
    /\ extracted.value.val["B"] = One

(***************************************************************************)
(* C25.  After any sequence of backtest calls on one PortfolioBacktester,  *)
(* the last-results field is the value that the most recent backtest call  *)
(* returned; after a call that returned the empty failure value,           *)
(* print_results() reports that there are no results and save_results()    *)
(* writes no file.                                                         *)
(***************************************************************************)
C25_LastResults ==
    [][/\ (pc' = "returned" /\ all_tickers' # <<>>) => results' = ret'
       /\ (pc = "returned" /\ all_tickers # <<>> /\ ret = NoResult) =>
             /\ saved_file' = saved_file
             /\ printed' # printed => printed'.text = "No results to display"]_vars

(***************************************************************************)
(* C27.  Every requested portfolio ticker for which the provider returned  *)
(* data is one of the result's tickers, has its entry in                   *)
(* individual_metrics and its row and column in correlation_matrix, and    *)
(* is a column of the returns from which the portfolio return series is    *)
(* computed, also when the benchmark symbol is one of the requested        *)
(* portfolio tickers.                                                      *)
(***************************************************************************)
C27_TickersWithDataKept ==
    (Completed /\ pc = "returned" /\ ret # NoResult) =>
        \A t \in WithData :
            /\ t \in Range(ret.tickers)
            /\ t \in DOMAIN ret.individual_metrics
            /\ t \in Range(ret.correlation_matrix.columns)
            /\ t \in DOMAIN ret.correlation_matrix.cell
            /\ t \in Range(returns.columns)

(***************************************************************************)
(* C26.  A backtest call that returns, returns the empty failure value {}  *)
(* if and only if no requested portfolio ticker yielded price data; when   *)
(* one or more portfolio tickers have data, the aligned price matrix is    *)
(* not empty and its last date has a value for every ticker with data.     *)
(***************************************************************************)
C26_EmptyIffNoData ==
    Completed =>
        /\ pc = "returned" => (ret = NoResult <=> WithData = {})
        /\ WithData # {} =>
              /\ ~FrameEmpty(prices)
              /\ \A t \in WithData :
                    /\ t \in Range(prices.columns)
                    /\ ~IsNaN(prices.cell[t][prices.index[Len(prices.index)]])

\* The weights that the weighted sum of line 295 applies to the columns of the
\* price matrix of a result.
AppliedWeights(res) ==
    [k \in DOMAIN res.tickers |-> WeightGet(res.portfolio_weights, res.tickers[k])]

(***************************************************************************)
(* C28.  In every non-empty result of the weighted backtest the weights    *)
(* applied to the instruments of the price matrix sum to 1 within the 1%   *)
(* tolerance, and the keys of portfolio_weights are the result's tickers,  *)
(* also when a weighted ticker yielded no data and was dropped.            *)
(***************************************************************************)
C28_AppliedWeightsSumToOne ==
    (pc = "returned" /\ method = "weighted" /\ ret # NoResult) =>
        /\ ~OutOfTolerance(SumSeq(AppliedWeights(ret)))
        /\ Range(ret.portfolio_weights.keys) = Range(ret.tickers)

\* The mapping that gives each of the tickers ts the weight 1/n.
UniformWeights(ts) == Weights(ts, [t \in Range(ts) |-> Frac(1, Len(ts))])

\* What backtest_weighted_portfolio produces for the mapping w and the benchmark b
\* with the answers of the provider of this state.
WeightedOutcome(w, b) == Outcome(FetchRest(StartWeighted(w, b)))

(***************************************************************************)
(* C29.  Whatever the provider answers, tickers without data included, an  *)
(* equal-weight backtest of n tickers and the weighted backtest of the     *)
(* same tickers with every weight 1/n end the same way and produce the     *)
(* same portfolio return series, portfolio value trajectory and            *)
(* portfolio_metrics.                                                      *)
(***************************************************************************)
C29_UniformWeightsAreEqualWeight ==
    (Completed /\ method = "equal") =>
        LET weighted == WeightedOutcome(UniformWeights(tickers), benchmark)
        IN  /\ weighted.raised = (pc = "raised")
            /\ (weighted.results = NoResult) = (ret = NoResult)
            /\ ret # NoResult =>
                  /\ weighted.results.portfolio_returns = ret.portfolio_returns
                  /\ weighted.results.portfolio_value = ret.portfolio_value
                  /\ weighted.results.portfolio_metrics = ret.portfolio_metrics

(***************************************************************************)
(* C30.  No step of backtest_weighted_portfolio on a mapping of            *)
(* non-negative weights, the empty mapping and a mapping whose weights sum *)
(* to zero included, raises: the call ends by returning {} or a populated  *)
(* result, and no step after the call has started changes the caller's     *)
(* mapping.                                                                *)
(***************************************************************************)
C30_WeightedNeverRaises ==
    [][method' = "weighted" =>
          /\ pc' # "raised"
          /\ pc' = "returned" => (ret' = NoResult \/ ResultFields \subseteq DOMAIN ret')
          /\ pc = "fetch" => weights_arg' = weights_arg]_vars

====
